---- MODULE Spec2Model ----
(***************************************************************************)
(* A model of the iocdi container (Station-Manager/iocdi): registration,   *)
(* Build (validation, instantiation, injection traversal, initializer      *)
(* order, hooks) and ResolveSafe, over a small catalogue of bean types.    *)
(***************************************************************************)
EXTENDS Integers, Sequences, FiniteSets, TLC

\* ------------------------------------------------------------------ bounds
\* How many registrations may store a descriptor (MaxConcRegs when a second
\* goroutine makes calls too, MaxLiveRegs under the fair scheduler), and how
\* many times the finalization sequence of Build may be entered.
MaxRegs == 3
MaxConcRegs == 2
MaxLiveRegs == 1
MaxBuilds == 2

\* ------------------------------------------------------------- identifiers
emptyString == ""

\* Identifiers as calls and tags write them, and their canonical forms.
RawIDs == {"", "a", "A", "b", "c"}
IDs == {"a", "b", "c"}

\* strings.ToLower on the identifiers of the model.
ToLower(s) ==
  CASE s = "A" -> "a"
    [] s = "B" -> "b"
    [] OTHER -> s

\* ------------------------------------------------------------------- types
\* A reflect.Type: k is its Kind, n the name of the struct (for a pointer: of
\* the element).  NilT is the nil reflect.Type.
T(k, n) == [k |-> k, n |-> n]
NilT == T("nil", "")
StringT == T("string", "")
IntT == T("int", "")
AnyT == T("iface", "any")
InitializerT == T("iface", "Initializer")
StructT(n) == T("struct", n)
PtrT(n) == T("ptr", n)

\* The struct types an application registers by type when one catalogue of
\* arguments serves every call (RegTypes), and all the struct types declared.
RegStructs == {"Leaf", "Na", "Nb", "Nc", "Nbc", "Cfg", "Sc"}
StructNames == RegStructs \cup {"Svc", "Sd"}

\* The struct types whose pointer type implements Initializer.
InitTypes == {"Leaf", "Na", "Nb", "Nc", "Cfg"}

Kind(t) == t.k
Elem(t) == IF t.n \in StructNames THEN StructT(t.n) ELSE IntT
PointerTo(t) == PtrT(t.n)

\* reflect.Type.Implements for the interfaces of the catalogue: every type
\* implements the empty interface; the pointers to the structs of InitTypes
\* implement Initializer.
Implements(t, iface) ==
  \/ iface = AnyT
  \/ iface = InitializerT /\ Kind(t) = "ptr" /\ t.n \in InitTypes

\* A struct field: its name, whether it carries a di.inject tag and the tag's
\* value as written, whether it is exported, and its type.
Fld(name, hasTag, tag, exported, type) ==
  [name |-> name, hasTag |-> hasTag, tag |-> tag, exported |-> exported, type |-> type]

\* The struct types of the catalogue (what an application would declare).
Fields(n) ==
  CASE n = "Leaf" -> <<>>
    [] n = "Na" -> << Fld("X", TRUE, "a", TRUE, InitializerT) >>
    [] n = "Nb" -> << Fld("X", TRUE, "B", TRUE, AnyT) >>
    [] n = "Nc" -> << Fld("X", TRUE, "c", TRUE, AnyT) >>
    [] n = "Nbc" -> << Fld("X", TRUE, "b", TRUE, AnyT),
                       Fld("Y", TRUE, "c", TRUE, AnyT),
                       Fld("U", FALSE, "", TRUE, PtrT("Leaf")) >>
    [] n = "Sc" -> << Fld("Dir", TRUE, "c", TRUE, StringT) >>
    [] n = "Svc" -> << Fld("Dep", TRUE, "a", TRUE, PtrT("Nb")),
                       Fld("Z", TRUE, "b", TRUE, PtrT("Leaf")) >>
    [] n = "Sd" -> << Fld("Dir", TRUE, "d", TRUE, StringT) >>
    [] n = "Cfg" -> << Fld("Dir", TRUE, "c", TRUE, StringT),
                       Fld("L", TRUE, "b", TRUE, PtrT("Leaf")),
                       Fld("h", TRUE, "b", FALSE, PtrT("Leaf")) >>
    [] OTHER -> <<>>

NumField(t) == Len(Fields(t.n))

\* ------------------------------------------------------------------ values
\* A Go value held in an `any` or in a field: nil, a string, a pointer to a
\* heap object, or a struct passed by value (zero-valued).
V(k, a, s) == [k |-> k, a |-> a, s |-> s]
NilV == V("nil", 0, "")
StrV(s) == V("str", 0, s)
PtrV(a) == V("ptr", a, "")
StructV(n) == V("struct", 0, n)

\* The zero value of a field of type t.
ZeroOf(t) == IF Kind(t) = "string" THEN StrV("") ELSE NilV

\* A heap object: the struct (or "int") it is, and its field values.
Obj(n, f) == [t |-> n, f |-> f]
ZeroObj(n) == Obj(n, [i \in 1..Len(Fields(n)) |-> ZeroOf(Fields(n)[i].type)])

\* reflect.TypeOf(v) with v's pointee looked up in heap h.
TypeOf(v, h) ==
  CASE v.k = "str" -> StringT
    [] v.k = "ptr" -> PtrT(h[v.a].t)
    [] v.k = "struct" -> StructT(v.s)
    [] OTHER -> NilT

\* ------------------------------------------------------------------ errors
Err(k, id, id2, path) == [k |-> k, id |-> id, id2 |-> id2, path |-> path]
NoErr == Err("nil", "", "", <<>>)
ErrBeanIdParamIsEmpty == Err("ErrBeanIdParamIsEmpty", "", "", <<>>)
ErrBeanTypeParamIsNil == Err("ErrBeanTypeParamIsNil", "", "", <<>>)
ErrBeanParamIsNil == Err("ErrBeanParamIsNil", "", "", <<>>)
ErrBeanTypeNotSupported == Err("ErrBeanTypeNotSupported", "", "", <<>>)
ErrRegistrationClosed == Err("ErrRegistrationClosed", "", "", <<>>)

\* ------------------------------------------------------------------- beans
bean(id, beanType, instance, singleton, hasDependencies, dependencies) ==
  [id |-> id, beanType |-> beanType, instance |-> instance, singleton |-> singleton,
   hasDependencies |-> hasDependencies, dependencies |-> dependencies]

\* Go maps: a function whose domain is the set of keys.
EmptyMap == [x \in {} |-> NilV]
Put(m, k, v) == [x \in DOMAIN m \cup {k} |-> IF x = k THEN v ELSE m[x]]
Has(m, k) == k \in DOMAIN m

\* ------------------------------------------------------- dependency scanner
\* Whether checkForDependency records field f, and what it records for it.
IsDepField(f) ==
  /\ f.hasTag
  /\ f.exported
  /\ \/ Kind(f.type) = "ptr" /\ Kind(Elem(f.type)) = "struct"
     \/ Kind(f.type) = "string"
     \/ Kind(f.type) = "iface"
DepEntry(f) ==
  [id |-> ToLower(f.tag),
   type |-> IF Kind(f.type) = "ptr" THEN Elem(f.type) ELSE f.type]

\* The (identifier, expected type) pairs of beanType's tagged fields, in field
\* order; empty when beanType is not a pointer to a struct.
ScanFields(beanType) ==
  IF Kind(beanType) = "ptr" /\ Kind(Elem(beanType)) = "struct"
  THEN LET fs == Fields(beanType.n)
           RECURSIVE scan(_)
           scan(i) == IF i > Len(fs) THEN <<>>
                      ELSE (IF IsDepField(fs[i]) THEN << DepEntry(fs[i]) >> ELSE <<>>)
                           \o scan(i + 1)
       IN scan(1)
  ELSE <<>>

RECURSIVE PutAll(_, _)
PutAll(m, es) ==
  IF es = <<>> THEN m ELSE PutAll(Put(m, Head(es).id, Head(es).type), Tail(es))

\* checkForDependency: (hasDependencies, dependencyIDs) and the
\* requiredDependency map after the scan of beanType.
checkForDependency(req, beanType) ==
  LET es == ScanFields(beanType)
  IN [has |-> es # <<>>,
      deps |-> [i \in 1..Len(es) |-> es[i].id],
      req |-> PutAll(req, es)]

\* ------------------------------------------------------------------- state
VARIABLES
  built,               \* Container.built (atomic.Bool)
  buildLock,           \* holder of Container.buildLock, or NoProc
  regMu,               \* write holder of Container.regMu, or NoProc
  requiredDependency,  \* Container.requiredDependency: identifier -> expected type
  registeredBeans,     \* Container.registeredBeans: identifier -> bean
  literalProvider,     \* the global hook: "nil" or "fn"
  heap,                \* the objects pointers point to; an address is an index
  th,                  \* per goroutine: position and locals of the call in progress
  nRegs,               \* registrations that reached the scanner so far
  nBuilds,             \* Build calls made on an open container so far
  initCount,           \* address -> times Initialize was invoked on the object
  initLog,             \* identifiers whose hook the finalization in progress invoked
  injLog,              \* <<receiver, dependency>> injections of the finalization in progress
  lpCalls,             \* its calls of the literal provider, with the answers
  nFailed              \* Build executions that returned an error so far

shared == <<built, buildLock, regMu, requiredDependency, registeredBeans,
            literalProvider, heap>>
hist == <<nRegs, nBuilds, initCount, initLog, injLog, lpCalls, nFailed>>
vars == <<shared, th, hist>>

Procs == {"p1", "p2"}
NoProc == ""

NoBean == bean("", NilT, NilV, FALSE, FALSE, <<>>)

\* A frame of the recursive visit of injectDependencies: the receiver id, the
\* index of the dependency in hand, where the frame stands ("deps": at the top
\* of the loop; "wait": inside visit(dep); "inject": visit(dep) returned), and
\* the frame's copies bn and depBean.
Frame(id, i, phase, bn, depBean) ==
  [id |-> id, i |-> i, phase |-> phase, bn |-> bn, depBean |-> depBean]

\* A caller between calls.
Idle ==
  [pc |-> "idle", op |-> "", id |-> "", b |-> NoBean, err |-> NoErr,
   visited |-> {}, onPath |-> {}, path |-> <<>>, stack |-> <<>>,
   order |-> <<>>, k |-> 0, val |-> NilV, rerr |-> NoErr, late |-> FALSE]

\* A goroutine that makes no call.
Off == [Idle EXCEPT !.pc = "off"]

\* The goroutines that call only Build and ResolveSafe, and only on a closed
\* container; one of them between calls.
LateProcs == {"p2"}
Late == [Idle EXCEPT !.pc = "late"]

\* A goroutine that calls only Build and ResolveSafe, at any time, between
\* calls.
Conc == [Idle EXCEPT !.pc = "conc"]

\* A call has returned (pc "done"): op and id are the call, val and rerr what
\* it returned; late records that the container was closed when the call was
\* made.
Return(op, id, val, rerr, late) ==
  [Idle EXCEPT !.pc = "done", !.op = op, !.id = id, !.val = val, !.rerr = rerr,
               !.late = late]

InitWith(second) ==
  /\ built = FALSE
  /\ buildLock = NoProc
  /\ regMu = NoProc
  /\ requiredDependency = EmptyMap
  /\ registeredBeans = EmptyMap
  /\ literalProvider = "nil"
  /\ heap = <<>>
  /\ th = [p \in Procs |-> IF p \in LateProcs THEN second ELSE Idle]
  /\ nRegs = 0
  /\ nBuilds = 0
  /\ initCount = EmptyMap
  /\ initLog = <<>>
  /\ injLog = <<>>
  /\ lpCalls = <<>>
  /\ nFailed = 0

\* One goroutine makes every call.
Init == InitWith(Off)

\* A second goroutine calls Build and ResolveSafe once the container is closed.
InitLate == InitWith(Late)

\* A second goroutine calls Build and ResolveSafe concurrently with the calls
\* of the first, on the open container as on the closed one.
InitConc == InitWith(Conc)

\* The registrations explored: MaxRegs when one goroutine makes every call,
\* MaxConcRegs when a second one makes calls too.
RegBound ==
  IF \E p \in LateProcs : th[p].pc # "off" THEN MaxConcRegs ELSE MaxRegs

\* The goroutine p is free to call Build or ResolveSafe.
Ready(p) ==
  th[p].pc \in {"idle", "conc"} \/ (th[p].pc = "late" /\ built)

\* ------------------------------------------------------------ registration
\* The reflect.Type arguments passed to Register.
RegTypes ==
  {NilT, StringT, PtrT("int"), StructT("Leaf")}
    \cup {PtrT(n) : n \in RegStructs}

\* The instances passed to RegisterInstance: nil, a string, a struct by
\* value, or a pointer to a freshly allocated object ("new").
RegInstances ==
  {NilV, StrV("v1"), StructV("Leaf"), V("new", 0, "Leaf")}

\* Register without the check of the built flag (line 239).
Register_NoClosedCheck(p, beanID, beanType) ==
  /\ th[p].pc = "idle"
  /\ IF beanID = emptyString THEN
       /\ th' = [th EXCEPT ![p] = Return("Register", "", NilV, ErrBeanIdParamIsEmpty, built)]
       /\ UNCHANGED <<shared, hist>>
     ELSE IF beanType = NilT THEN
       /\ th' = [th EXCEPT ![p] = Return("Register", "", NilV, ErrBeanTypeParamIsNil, built)]
       /\ UNCHANGED <<shared, hist>>
     ELSE IF Kind(beanType) \notin {"ptr", "struct"} THEN
       /\ th' = [th EXCEPT ![p] = Return("Register", "", NilV, ErrBeanTypeNotSupported, built)]
       /\ UNCHANGED <<shared, hist>>
     ELSE
       LET id == ToLower(beanID)
           bt == IF Kind(beanType) = "struct" THEN PointerTo(beanType) ELSE beanType
           r == checkForDependency(requiredDependency, bt)
       IN /\ nRegs < RegBound
          /\ nRegs' = nRegs + 1
          /\ requiredDependency' = r.req
          /\ th' = [th EXCEPT ![p] = [Idle EXCEPT !.pc = "reg_store", !.op = "Register",
                                        !.id = id, !.late = built,
                                        !.b = bean(id, bt, NilV, FALSE, r.has, r.deps)]]
          /\ UNCHANGED <<built, buildLock, regMu, registeredBeans, literalProvider, heap,
                         nBuilds, initCount, initLog, injLog, lpCalls, nFailed>>

\* Register scanning the type for dependencies before the check of the built
\* flag.
Register_ScanFirst(p, beanID, beanType) ==
  /\ th[p].pc = "idle"
  /\ IF beanID = emptyString THEN
       /\ th' = [th EXCEPT ![p] = Return("Register", "", NilV, ErrBeanIdParamIsEmpty, built)]
       /\ UNCHANGED <<shared, hist>>
     ELSE IF beanType = NilT THEN
       /\ th' = [th EXCEPT ![p] = Return("Register", "", NilV, ErrBeanTypeParamIsNil, built)]
       /\ UNCHANGED <<shared, hist>>
     ELSE IF Kind(beanType) \notin {"ptr", "struct"} THEN
       /\ th' = [th EXCEPT ![p] = Return("Register", "", NilV,
                                         IF built THEN ErrRegistrationClosed
                                         ELSE ErrBeanTypeNotSupported, built)]
       /\ UNCHANGED <<shared, hist>>
     ELSE
       LET id == ToLower(beanID)
           bt == IF Kind(beanType) = "struct" THEN PointerTo(beanType) ELSE beanType
           r == checkForDependency(requiredDependency, bt)
       IN IF built THEN
            /\ requiredDependency' = r.req
            /\ th' = [th EXCEPT ![p] = Return("Register", "", NilV, ErrRegistrationClosed, built)]
            /\ UNCHANGED <<built, buildLock, regMu, registeredBeans, literalProvider, heap, hist>>
          ELSE
            /\ nRegs < RegBound
            /\ nRegs' = nRegs + 1
            /\ requiredDependency' = r.req
            /\ th' = [th EXCEPT ![p] = [Idle EXCEPT !.pc = "reg_store", !.op = "Register",
                                          !.id = id,
                                          !.b = bean(id, bt, NilV, FALSE, r.has, r.deps)]]
            /\ UNCHANGED <<built, buildLock, regMu, registeredBeans, literalProvider, heap,
                           nBuilds, initCount, initLog, injLog, lpCalls, nFailed>>

\* Register, lines 232-265: the checks, the normalization and the scan; the
\* descriptor is stored by RegStore.
Register(p, beanID, beanType) ==
  /\ th[p].pc = "idle"
  /\ IF beanID = emptyString THEN
       /\ th' = [th EXCEPT ![p] = Return("Register", "", NilV, ErrBeanIdParamIsEmpty, built)]
       /\ UNCHANGED <<shared, hist>>
     ELSE IF beanType = NilT THEN
       /\ th' = [th EXCEPT ![p] = Return("Register", "", NilV, ErrBeanTypeParamIsNil, built)]
       /\ UNCHANGED <<shared, hist>>
     ELSE IF built THEN
       /\ th' = [th EXCEPT ![p] = Return("Register", "", NilV, ErrRegistrationClosed, built)]
       /\ UNCHANGED <<shared, hist>>
     ELSE IF Kind(beanType) \notin {"ptr", "struct"} THEN
       /\ th' = [th EXCEPT ![p] = Return("Register", "", NilV, ErrBeanTypeNotSupported, built)]
       /\ UNCHANGED <<shared, hist>>
     ELSE
       LET id == ToLower(beanID)
           bt == IF Kind(beanType) = "struct" THEN PointerTo(beanType) ELSE beanType
           r == checkForDependency(requiredDependency, bt)
       IN /\ nRegs < RegBound
          /\ nRegs' = nRegs + 1
          /\ requiredDependency' = r.req
          /\ th' = [th EXCEPT ![p] = [Idle EXCEPT !.pc = "reg_store", !.op = "Register",
                                        !.id = id,
                                        !.b = bean(id, bt, NilV, FALSE, r.has, r.deps)]]
          /\ UNCHANGED <<built, buildLock, regMu, registeredBeans, literalProvider, heap,
                         nBuilds, initCount, initLog, injLog, lpCalls, nFailed>>

\* RegisterInstance, lines 277-309.
RegisterInstance(p, beanID, instance) ==
  /\ th[p].pc = "idle"
  /\ IF beanID = emptyString THEN
       /\ th' = [th EXCEPT ![p] = Return("RegisterInstance", "", NilV, ErrBeanIdParamIsEmpty, built)]
       /\ UNCHANGED <<shared, hist>>
     ELSE IF instance = NilV THEN
       /\ th' = [th EXCEPT ![p] = Return("RegisterInstance", "", NilV, ErrBeanParamIsNil, built)]
       /\ UNCHANGED <<shared, hist>>
     ELSE IF built THEN
       /\ th' = [th EXCEPT ![p] = Return("RegisterInstance", "", NilV, ErrRegistrationClosed, built)]
       /\ UNCHANGED <<shared, hist>>
     ELSE
       LET id == ToLower(beanID)
           \* a pointer argument points to an object the caller allocated; a
           \* struct value is copied into a fresh reflect.New(beanType)
           alloc == instance.k \in {"new", "struct"}
           h1 == IF alloc THEN Append(heap, ZeroObj(instance.s)) ELSE heap
           inst == IF alloc THEN PtrV(Len(h1)) ELSE instance
           bt == TypeOf(inst, h1)
           r == checkForDependency(requiredDependency, bt)
       IN /\ nRegs < RegBound
          /\ nRegs' = nRegs + 1
          /\ heap' = h1
          /\ requiredDependency' = r.req
          /\ th' = [th EXCEPT ![p] = [Idle EXCEPT !.pc = "reg_store", !.op = "RegisterInstance",
                                        !.id = id,
                                        !.b = bean(id, bt, inst, TRUE, r.has, r.deps)]]
          /\ UNCHANGED <<built, buildLock, regMu, registeredBeans, literalProvider,
                         nBuilds, initCount, initLog, injLog, lpCalls, nFailed>>

\* Register lines 266-269, RegisterInstance lines 311-315: the store under regMu.
RegStore(p) ==
  /\ th[p].pc = "reg_store"
  /\ regMu = NoProc
  /\ registeredBeans' = Put(registeredBeans, th[p].b.id, th[p].b)
  /\ th' = [th EXCEPT ![p] = Return(th[p].op, th[p].id, NilV, NoErr, th[p].late)]
  /\ UNCHANGED <<built, buildLock, regMu, requiredDependency, literalProvider, heap, hist>>

\* SetLiteralProvider: installs or removes the global hook.
SetLiteralProvider(p, lp) ==
  /\ th[p].pc = "idle"
  /\ lp # literalProvider
  /\ literalProvider' = lp
  /\ th' = [th EXCEPT ![p] = Return("SetLiteralProvider", "", NilV, NoErr, built)]
  /\ UNCHANGED <<built, buildLock, regMu, requiredDependency, registeredBeans, heap, hist>>

\* -------------------------------------------------------------------- Build
\* Build(): the call is made; BuildLock takes the locks.
CallBuild(p) ==
  /\ Ready(p)
  /\ built \/ nBuilds < MaxBuilds
  /\ nBuilds' = IF built THEN nBuilds ELSE nBuilds + 1
  /\ th' = [th EXCEPT ![p] = [Idle EXCEPT !.pc = "build", !.op = "Build", !.late = built]]
  /\ UNCHANGED <<shared, nRegs, initCount, initLog, injLog, lpCalls, nFailed>>

\* What a caller does when the Build it called returns berr: Build's caller
\* gets berr; ResolveSafe (lines 473-477) returns it or goes on to the lookup.
AfterBuild(l, berr) ==
  IF l.op = "ResolveSafe" /\ berr = NoErr
  THEN [Idle EXCEPT !.pc = "lookup", !.op = l.op, !.late = l.late]
  ELSE Return(l.op, l.id, NilV, berr, l.late)

\* BuildLock without the idempotence check of lines 328-330: the finalization
\* runs whether or not the container is closed.
BuildLock_NoIdempotenceCheck(p) ==
  /\ th[p].pc = "build"
  /\ buildLock = NoProc
  /\ regMu = NoProc
  /\ buildLock' = p
  /\ regMu' = p
  /\ th' = [th EXCEPT ![p].pc = "validate"]
  /\ UNCHANGED <<built, requiredDependency, registeredBeans, literalProvider, heap, hist>>

\* BuildLock storing the built flag as soon as the locks are held, not in the
\* deferred call at the return.
BuildLock_StoreEarly(p) ==
  /\ th[p].pc = "build"
  /\ buildLock = NoProc
  /\ IF built THEN
       /\ th' = [th EXCEPT ![p] = AfterBuild(th[p], NoErr)]
       /\ UNCHANGED <<shared, hist>>
     ELSE
       /\ regMu = NoProc
       /\ buildLock' = p
       /\ regMu' = p
       /\ built' = TRUE
       /\ th' = [th EXCEPT ![p].pc = "validate"]
       /\ UNCHANGED <<requiredDependency, registeredBeans, literalProvider, heap, hist>>

\* BuildLock without the locks: the finalization is entered whoever holds them.
BuildLock_Unlocked(p) ==
  /\ th[p].pc = "build"
  /\ IF built THEN
       /\ th' = [th EXCEPT ![p] = AfterBuild(th[p], NoErr)]
       /\ UNCHANGED <<shared, hist>>
     ELSE
       /\ buildLock' = p
       /\ regMu' = p
       /\ th' = [th EXCEPT ![p].pc = "validate"]
       /\ UNCHANGED <<built, requiredDependency, registeredBeans, literalProvider, heap, hist>>

\* Build lines 323-339: buildLock, the idempotence check, regMu.
BuildLock(p) ==
  /\ th[p].pc = "build"
  /\ buildLock = NoProc
  /\ IF built THEN
       /\ th' = [th EXCEPT ![p] = AfterBuild(th[p], NoErr)]
       /\ UNCHANGED <<shared, hist>>
     ELSE
       /\ regMu = NoProc
       /\ buildLock' = p
       /\ regMu' = p
       /\ th' = [th EXCEPT ![p].pc = "validate"]
       /\ UNCHANGED <<built, requiredDependency, registeredBeans, literalProvider, heap, hist>>

\* Compatible accepting any pointer for an expected struct.
Compatible_AnyPointer(requiredType, registeredType) ==
  CASE Kind(requiredType) = "struct" -> Kind(registeredType) = "ptr"
    [] Kind(requiredType) = "iface" -> Implements(registeredType, requiredType)
    [] OTHER -> registeredType = requiredType

\* The compatibility switch of Build, lines 356-369.
Compatible(requiredType, registeredType) ==
  CASE Kind(requiredType) = "struct" ->
         Kind(registeredType) = "ptr" /\ Elem(registeredType) = requiredType
    [] Kind(requiredType) = "iface" -> Implements(registeredType, requiredType)
    [] OTHER -> registeredType = requiredType

\* ValidateOne leaving every missing dependency, whatever its expected type,
\* to the literal provider when one is installed.
ValidateOne_DeferAnyKind(beanID) ==
  LET requiredType == requiredDependency[beanID] IN
  IF ~Has(registeredBeans, beanID) THEN
    IF literalProvider # "nil" THEN NoErr
    ELSE Err("required_not_registered", beanID, "", <<>>)
  ELSE IF ~Compatible(requiredType, registeredBeans[beanID].beanType)
       THEN Err("type_mismatch", beanID, "", <<>>)
       ELSE NoErr

\* The error, if any, the validation loop (lines 343-374) returns at beanID.
ValidateOne(beanID) ==
  LET requiredType == requiredDependency[beanID] IN
  IF ~Has(registeredBeans, beanID) THEN
    IF Kind(requiredType) = "string" /\ literalProvider # "nil" THEN NoErr
    ELSE Err("required_not_registered", beanID, "", <<>>)
  ELSE IF ~Compatible(requiredType, registeredBeans[beanID].beanType)
       THEN Err("type_mismatch", beanID, "", <<>>)
       ELSE NoErr

\* Validate that checks only the entries that have a registered bean.
Validate_IgnoreMissing(p) ==
  /\ th[p].pc = "validate"
  /\ LET bad == {id \in DOMAIN requiredDependency :
                   Has(registeredBeans, id) /\ ValidateOne(id) # NoErr} IN
       IF bad = {} THEN th' = [th EXCEPT ![p].pc = "instantiate"]
       ELSE \E id \in bad : th' = [th EXCEPT ![p].err = ValidateOne(id), ![p].pc = "unlock"]
  /\ UNCHANGED <<shared, hist>>

\* Build lines 341-374: the map is ranged over in any order, so any failing
\* entry may be the one returned.
Validate(p) ==
  /\ th[p].pc = "validate"
  /\ LET bad == {id \in DOMAIN requiredDependency : ValidateOne(id) # NoErr} IN
       IF bad = {} THEN th' = [th EXCEPT ![p].pc = "instantiate"]
       ELSE \E id \in bad : th' = [th EXCEPT ![p].err = ValidateOne(id), ![p].pc = "unlock"]
  /\ UNCHANGED <<shared, hist>>

\* createInstance, initializer.go lines 38-48: the new instance and the heap.
createInstance(beanType, h) ==
  IF Kind(beanType) = "ptr"
  THEN [instance |-> PtrV(Len(h) + 1), heap |-> Append(h, ZeroObj(beanType.n)), err |-> NoErr]
  ELSE IF Kind(beanType) = "struct"
  THEN [instance |-> PtrV(Len(h) + 1), heap |-> Append(h, ZeroObj(beanType.n)), err |-> NoErr]
  ELSE [instance |-> NilV, heap |-> h, err |-> Err("not_supported", "", "", <<>>)]

\* Whether the instantiation loop creates an instance for bn (line 382).
Instantiable(bn) ==
  Kind(bn.beanType) = "ptr" /\ Kind(Elem(bn.beanType)) = "struct"

\* The instantiation loop, lines 377-392, over the identifiers in ids: the
\* registry and the heap after it.
RECURSIVE InstantiateAll(_, _, _)
InstantiateAll(reg, h, ids) ==
  IF ids = {} THEN [reg |-> reg, heap |-> h]
  ELSE LET id == CHOOSE x \in ids : TRUE
           bn == reg[id]
       IN IF bn.instance # NilV \/ ~Instantiable(bn)
          THEN InstantiateAll(reg, h, ids \ {id})
          ELSE LET c == createInstance(bn.beanType, h)
               IN InstantiateAll(
                    Put(reg, bn.id, [bn EXCEPT !.instance = c.instance, !.singleton = TRUE]),
                    c.heap, ids \ {id})

\* Instantiate writing back a descriptor built anew around the instance, without
\* the dependencies recorded at registration.
Instantiate_FreshDescriptor(p) ==
  /\ th[p].pc = "instantiate"
  /\ LET r == InstantiateAll(registeredBeans, heap, DOMAIN registeredBeans)
     IN /\ registeredBeans' =
             [id \in DOMAIN r.reg |->
                IF r.reg[id] = registeredBeans[id] THEN r.reg[id]
                ELSE bean(id, r.reg[id].beanType, r.reg[id].instance, TRUE, FALSE, <<>>)]
        /\ heap' = r.heap
  /\ th' = [th EXCEPT ![p].pc = "inject"]
  /\ UNCHANGED <<built, buildLock, regMu, requiredDependency, literalProvider, hist>>

Instantiate(p) ==
  /\ th[p].pc = "instantiate"
  /\ LET r == InstantiateAll(registeredBeans, heap, DOMAIN registeredBeans)
     IN /\ registeredBeans' = r.reg
        /\ heap' = r.heap
  /\ th' = [th EXCEPT ![p].pc = "inject"]
  /\ UNCHANGED <<built, buildLock, regMu, requiredDependency, literalProvider, hist>>

\* ------------------------------------------------------------ field injection
\* InjectOneField that also fills a field without annotation when its type is
\* the dependency's.
InjectOneField_ByType(h, ra, i, depBean) ==
  LET sf == Fields(h[ra].t)[i]
      fieldType == sf.type
      depType == depBean.beanType
      depVal == depBean.instance
      fresh == Len(h) + 1
  IN IF (~sf.hasTag \/ sf.tag = emptyString) /\ fieldType # depType THEN h
     ELSE IF sf.hasTag /\ sf.tag # emptyString /\ ToLower(sf.tag) # depBean.id THEN h
     ELSE IF ~sf.exported THEN h
     ELSE IF fieldType = depType THEN [h EXCEPT ![ra].f[i] = depVal]
     ELSE IF Kind(fieldType) = "iface" THEN
       IF Implements(TypeOf(depVal, h), fieldType)
       THEN [h EXCEPT ![ra].f[i] = depVal]
       ELSE h
     ELSE h

\* InjectOneField comparing the tag as written with the identifier.
InjectOneField_CaseSensitive(h, ra, i, depBean) ==
  LET sf == Fields(h[ra].t)[i]
      fieldType == sf.type
      depType == depBean.beanType
      depVal == depBean.instance
      fresh == Len(h) + 1
  IN IF ~sf.hasTag \/ sf.tag = emptyString THEN h
     ELSE IF sf.tag # depBean.id THEN h
     ELSE IF ~sf.exported THEN h
     ELSE IF fieldType = depType THEN
       IF Kind(depType) = "ptr" /\ Kind(Elem(depType)) = "struct" /\ NumField(Elem(depType)) = 0
       THEN [Append(h, ZeroObj(depType.n)) EXCEPT ![ra].f[i] = PtrV(fresh)]
       ELSE [h EXCEPT ![ra].f[i] = depVal]
     ELSE IF Kind(fieldType) = "iface" THEN
       IF Implements(TypeOf(depVal, h), fieldType)
       THEN [h EXCEPT ![ra].f[i] = depVal]
       ELSE h
     ELSE IF Kind(fieldType) = "ptr" /\ Kind(depType) = "struct" /\ Elem(fieldType) = depType THEN
       [Append(h, ZeroObj(depType.n)) EXCEPT ![ra].f[i] = PtrV(fresh)]
     ELSE IF Kind(fieldType) = "struct" /\ Kind(depType) = "ptr" /\ Elem(depType) = fieldType THEN
       [h EXCEPT ![ra].f[i] = StructV(fieldType.n)]
     ELSE IF Kind(fieldType) = "ptr" /\ Kind(depType) = "ptr" /\ Elem(fieldType) = Elem(depType) THEN
       [h EXCEPT ![ra].f[i] = depVal]
     ELSE h

\* The body of injectIntoStruct's loop (initializer.go lines 71-134) for field
\* i of the receiver object at address ra: the heap after it.
InjectOneField(h, ra, i, depBean) ==
  LET sf == Fields(h[ra].t)[i]
      fieldType == sf.type
      depType == depBean.beanType
      depVal == depBean.instance
      fresh == Len(h) + 1
  IN IF ~sf.hasTag \/ sf.tag = emptyString THEN h
     ELSE IF ToLower(sf.tag) # depBean.id THEN h
     ELSE IF ~sf.exported THEN h
     ELSE IF fieldType = depType THEN
       IF Kind(depType) = "ptr" /\ Kind(Elem(depType)) = "struct" /\ NumField(Elem(depType)) = 0
       THEN [Append(h, ZeroObj(depType.n)) EXCEPT ![ra].f[i] = PtrV(fresh)]
       ELSE [h EXCEPT ![ra].f[i] = depVal]
     ELSE IF Kind(fieldType) = "iface" THEN
       IF Implements(TypeOf(depVal, h), fieldType)
       THEN [h EXCEPT ![ra].f[i] = depVal]
       ELSE h
     ELSE IF Kind(fieldType) = "ptr" /\ Kind(depType) = "struct" /\ Elem(fieldType) = depType THEN
       [Append(h, ZeroObj(depType.n)) EXCEPT ![ra].f[i] = PtrV(fresh)]
     ELSE IF Kind(fieldType) = "struct" /\ Kind(depType) = "ptr" /\ Elem(depType) = fieldType THEN
       [h EXCEPT ![ra].f[i] = StructV(fieldType.n)]
     ELSE IF Kind(fieldType) = "ptr" /\ Kind(depType) = "ptr" /\ Elem(fieldType) = Elem(depType) THEN
       [h EXCEPT ![ra].f[i] = depVal]
     ELSE h

RECURSIVE InjectFields(_, _, _, _)
InjectFields(h, ra, i, depBean) ==
  IF i > Len(Fields(h[ra].t)) THEN h
  ELSE InjectFields(InjectOneField(h, ra, i, depBean), ra, i + 1, depBean)

\* injectIntoStruct, initializer.go lines 50-137: the error it returns and the
\* heap it leaves.
injectIntoStruct(receiverBean, depBean, chain, h) ==
  IF \E j \in 1..Len(chain) : chain[j] = depBean.id
  THEN [err |-> Err("cycle", depBean.id, "", Append(chain, depBean.id)), heap |-> h]
  ELSE IF ~(receiverBean.instance.k = "ptr" /\ h[receiverBean.instance.a].t \in StructNames)
  THEN [err |-> Err("not_a_struct", receiverBean.id, "", <<>>), heap |-> h]
  ELSE [err |-> NoErr, heap |-> InjectFields(h, receiverBean.instance.a, 1, depBean)]

\* ------------------------------------------------------- injection traversal
\* A return with error e from anywhere inside injectDependencies.
Fail(l, e) == [l EXCEPT !.err = e, !.pc = "unlock"]

\* visit(dep) returned nil to the frame on top of the stack, if any.
Returned(l) ==
  IF l.stack = <<>> THEN l
  ELSE [l EXCEPT !.stack[Len(l.stack)].phase = "inject"]

\* visit without the test of the visited set.
visit_NoMemo(l, reg, id) ==
  IF ~Has(reg, id) THEN Fail(l, Err("receiver_not_found", id, "", <<>>))
  ELSE LET bn == reg[id] IN
    IF id \in l.onPath THEN Fail(l, Err("cycle", id, "", Append(l.path, id)))
    ELSE IF ~bn.hasDependencies THEN Returned([l EXCEPT !.visited = @ \cup {id}])
    ELSE IF bn.instance = NilV THEN
      Fail([l EXCEPT !.onPath = @ \cup {id}, !.path = Append(@, id)],
           Err("receiver_nil", bn.id, "", <<>>))
    ELSE [l EXCEPT !.onPath = @ \cup {id}, !.path = Append(@, id),
                   !.stack = Append(@, Frame(id, 1, "deps", bn, NoBean))]

\* The call visit(id), lines 91-116, made with locals l and registry reg: up
\* to the entry of the dependency loop. A bean without dependencies is left
\* at once (lines 164-168).
visit(l, reg, id) ==
  IF ~Has(reg, id) THEN Fail(l, Err("receiver_not_found", id, "", <<>>))
  ELSE LET bn == reg[id] IN
    IF id \in l.onPath THEN Fail(l, Err("cycle", id, "", Append(l.path, id)))
    ELSE IF id \in l.visited THEN Returned(l)
    ELSE IF ~bn.hasDependencies THEN Returned([l EXCEPT !.visited = @ \cup {id}])
    ELSE IF bn.instance = NilV THEN
      Fail([l EXCEPT !.onPath = @ \cup {id}, !.path = Append(@, id)],
           Err("receiver_nil", bn.id, "", <<>>))
    ELSE [l EXCEPT !.onPath = @ \cup {id}, !.path = Append(@, id),
                   !.stack = Append(@, Frame(id, 1, "deps", bn, NoBean))]

Top(l) == l.stack[Len(l.stack)]

\* The range loop of lines 172-176: visit is called on a bean not yet visited
\* (on a visited one it returns at once).
InjectTop(p) ==
  /\ th[p].pc = "inject"
  /\ th[p].stack = <<>>
  /\ \E id \in DOMAIN registeredBeans \ th[p].visited :
       th' = [th EXCEPT ![p] = visit(th[p], registeredBeans, id)]
  /\ UNCHANGED <<shared, hist>>

\* The range loop is over: injectDependencies returns nil (line 178).
InjectDone(p) ==
  /\ th[p].pc = "inject"
  /\ th[p].stack = <<>>
  /\ DOMAIN registeredBeans \subseteq th[p].visited
  /\ th' = [th EXCEPT ![p].pc = "order"]
  /\ UNCHANGED <<shared, hist>>

\* A call of the literal provider: the identifier it was asked for and its
\* answer: "value" for (value, true, nil), "notfound" for (_, false, nil),
\* "error" for a non-nil error.
LpCall(id, ans) == [id |-> id, ans |-> ans]

\* The value an installed provider supplies for a string: a string.
LiteralValue == StrV("lit")

\* LiteralBean holding the zero value of the expected type, not the value the
\* provider returned.
LiteralBean_ZeroValue(depBeanID, val, expectedType) ==
  bean(depBeanID, expectedType, ZeroOf(expectedType), FALSE, FALSE, <<>>)

\* The synthesized descriptor of lines 128-133.
LiteralBean(depBeanID, val, expectedType) ==
  bean(depBeanID, expectedType, val, FALSE, FALSE, <<>>)

\* InjectDep asking the literal provider for every string dependency, whether
\* or not a bean is registered under its identifier.
InjectDep_ProviderFirst(p) ==
  LET l == th[p]
      f == Top(l)
  IN
  /\ l.pc = "inject"
  /\ l.stack # <<>>
  /\ f.phase = "deps"
  /\ f.i <= Len(f.bn.dependencies)
  /\ LET depBeanID == f.bn.dependencies[f.i]
         call(depBean) == [l EXCEPT !.stack[Len(l.stack)].phase = "wait",
                                    !.stack[Len(l.stack)].depBean = depBean]
         notFound == Err("dependency_not_found", depBeanID, f.bn.id, <<>>)
     IN
     IF /\ Has(requiredDependency, depBeanID)
        /\ Kind(requiredDependency[depBeanID]) = "string"
        /\ literalProvider # "nil"
     THEN
       /\ \/ /\ lpCalls' = Append(lpCalls, LpCall(depBeanID, "error"))
             /\ th' = [th EXCEPT ![p] = Fail(l, Err("literal_provider_error", depBeanID, "", <<>>))]
             /\ UNCHANGED registeredBeans
          \/ /\ lpCalls' = Append(lpCalls, LpCall(depBeanID, "notfound"))
             /\ th' = [th EXCEPT ![p] = Fail(l, notFound)]
             /\ UNCHANGED registeredBeans
          \/ LET depBean == LiteralBean(depBeanID, LiteralValue, requiredDependency[depBeanID])
                 reg == Put(registeredBeans, depBeanID, depBean)
             IN /\ lpCalls' = Append(lpCalls, LpCall(depBeanID, "value"))
                /\ registeredBeans' = reg
                /\ th' = [th EXCEPT ![p] = visit(call(depBean), reg, depBeanID)]
       /\ UNCHANGED <<built, buildLock, regMu, requiredDependency, literalProvider, heap,
                      nRegs, nBuilds, initCount, initLog, injLog, nFailed>>
     ELSE IF Has(registeredBeans, depBeanID) THEN
       /\ th' = [th EXCEPT ![p] = visit(call(registeredBeans[depBeanID]), registeredBeans, depBeanID)]
       /\ UNCHANGED <<shared, hist>>
     ELSE
       /\ th' = [th EXCEPT ![p] = Fail(l, notFound)]
       /\ UNCHANGED <<shared, hist>>

\* InjectDep dropping the provider's error: the answer is then treated as
\* (value, true, nil).
InjectDep_DropProviderError(p) ==
  LET l == th[p]
      f == Top(l)
  IN
  /\ l.pc = "inject"
  /\ l.stack # <<>>
  /\ f.phase = "deps"
  /\ f.i <= Len(f.bn.dependencies)
  /\ LET depBeanID == f.bn.dependencies[f.i]
         call(depBean) == [l EXCEPT !.stack[Len(l.stack)].phase = "wait",
                                    !.stack[Len(l.stack)].depBean = depBean]
         notFound == Err("dependency_not_found", depBeanID, f.bn.id, <<>>)
     IN
     IF Has(registeredBeans, depBeanID) THEN
       /\ th' = [th EXCEPT ![p] = visit(call(registeredBeans[depBeanID]), registeredBeans, depBeanID)]
       /\ UNCHANGED <<shared, hist>>
     ELSE IF /\ Has(requiredDependency, depBeanID)
             /\ Kind(requiredDependency[depBeanID]) = "string"
             /\ literalProvider # "nil"
     THEN
       /\ \/ /\ lpCalls' = Append(lpCalls, LpCall(depBeanID, "notfound"))
             /\ th' = [th EXCEPT ![p] = Fail(l, notFound)]
             /\ UNCHANGED registeredBeans
          \/ \E ans \in {"value", "error"} :
             LET depBean == LiteralBean(depBeanID, LiteralValue, requiredDependency[depBeanID])
                 reg == Put(registeredBeans, depBeanID, depBean)
             IN /\ lpCalls' = Append(lpCalls, LpCall(depBeanID, ans))
                /\ registeredBeans' = reg
                /\ th' = [th EXCEPT ![p] = visit(call(depBean), reg, depBeanID)]
       /\ UNCHANGED <<built, buildLock, regMu, requiredDependency, literalProvider, heap,
                      nRegs, nBuilds, initCount, initLog, injLog, nFailed>>
     ELSE
       /\ th' = [th EXCEPT ![p] = Fail(l, notFound)]
       /\ UNCHANGED <<shared, hist>>

\* InjectDep going on to the injection of a registered dependency without the
\* recursive call visit(depBeanID) of line 145.
InjectDep_NoRecursion(p) ==
  LET l == th[p]
      f == Top(l)
  IN
  /\ l.pc = "inject"
  /\ l.stack # <<>>
  /\ f.phase = "deps"
  /\ f.i <= Len(f.bn.dependencies)
  /\ LET depBeanID == f.bn.dependencies[f.i]
         call(depBean) == [l EXCEPT !.stack[Len(l.stack)].phase = "wait",
                                    !.stack[Len(l.stack)].depBean = depBean]
         notFound == Err("dependency_not_found", depBeanID, f.bn.id, <<>>)
     IN
     IF Has(registeredBeans, depBeanID) THEN
       /\ th' = [th EXCEPT ![p] = Returned(call(registeredBeans[depBeanID]))]
       /\ UNCHANGED <<shared, hist>>
     ELSE IF /\ Has(requiredDependency, depBeanID)
             /\ Kind(requiredDependency[depBeanID]) = "string"
             /\ literalProvider # "nil"
     THEN
       /\ \/ /\ lpCalls' = Append(lpCalls, LpCall(depBeanID, "error"))
             /\ th' = [th EXCEPT ![p] = Fail(l, Err("literal_provider_error", depBeanID, "", <<>>))]
             /\ UNCHANGED registeredBeans
          \/ /\ lpCalls' = Append(lpCalls, LpCall(depBeanID, "notfound"))
             /\ th' = [th EXCEPT ![p] = Fail(l, notFound)]
             /\ UNCHANGED registeredBeans
          \/ LET depBean == LiteralBean(depBeanID, LiteralValue, requiredDependency[depBeanID])
                 reg == Put(registeredBeans, depBeanID, depBean)
             IN /\ lpCalls' = Append(lpCalls, LpCall(depBeanID, "value"))
                /\ registeredBeans' = reg
                /\ th' = [th EXCEPT ![p] = visit(call(depBean), reg, depBeanID)]
       /\ UNCHANGED <<built, buildLock, regMu, requiredDependency, literalProvider, heap,
                      nRegs, nBuilds, initCount, initLog, injLog, nFailed>>
     ELSE
       /\ th' = [th EXCEPT ![p] = Fail(l, notFound)]
       /\ UNCHANGED <<shared, hist>>

\* InjectDep taking the dependencies from the last one recorded to the first.
InjectDep_ReverseOrder(p) ==
  LET l == th[p]
      f == Top(l)
  IN
  /\ l.pc = "inject"
  /\ l.stack # <<>>
  /\ f.phase = "deps"
  /\ f.i <= Len(f.bn.dependencies)
  /\ LET depBeanID == f.bn.dependencies[Len(f.bn.dependencies) + 1 - f.i]
         call(depBean) == [l EXCEPT !.stack[Len(l.stack)].phase = "wait",
                                    !.stack[Len(l.stack)].depBean = depBean]
         notFound == Err("dependency_not_found", depBeanID, f.bn.id, <<>>)
     IN
     IF Has(registeredBeans, depBeanID) THEN
       /\ th' = [th EXCEPT ![p] = visit(call(registeredBeans[depBeanID]), registeredBeans, depBeanID)]
       /\ UNCHANGED <<shared, hist>>
     ELSE IF /\ Has(requiredDependency, depBeanID)
             /\ Kind(requiredDependency[depBeanID]) = "string"
             /\ literalProvider # "nil"
     THEN
       /\ \/ /\ lpCalls' = Append(lpCalls, LpCall(depBeanID, "error"))
             /\ th' = [th EXCEPT ![p] = Fail(l, Err("literal_provider_error", depBeanID, "", <<>>))]
             /\ UNCHANGED registeredBeans
          \/ /\ lpCalls' = Append(lpCalls, LpCall(depBeanID, "notfound"))
             /\ th' = [th EXCEPT ![p] = Fail(l, notFound)]
             /\ UNCHANGED registeredBeans
          \/ LET depBean == LiteralBean(depBeanID, LiteralValue, requiredDependency[depBeanID])
                 reg == Put(registeredBeans, depBeanID, depBean)
             IN /\ lpCalls' = Append(lpCalls, LpCall(depBeanID, "value"))
                /\ registeredBeans' = reg
                /\ th' = [th EXCEPT ![p] = visit(call(depBean), reg, depBeanID)]
       /\ UNCHANGED <<built, buildLock, regMu, requiredDependency, literalProvider, heap,
                      nRegs, nBuilds, initCount, initLog, injLog, nFailed>>
     ELSE
       /\ th' = [th EXCEPT ![p] = Fail(l, notFound)]
       /\ UNCHANGED <<shared, hist>>

\* InjectDep using the synthesized descriptor without storing it in the
\* registry (line 134).
InjectDep_LiteralNotStored(p) ==
  LET l == th[p]
      f == Top(l)
  IN
  /\ l.pc = "inject"
  /\ l.stack # <<>>
  /\ f.phase = "deps"
  /\ f.i <= Len(f.bn.dependencies)
  /\ LET depBeanID == f.bn.dependencies[f.i]
         call(depBean) == [l EXCEPT !.stack[Len(l.stack)].phase = "wait",
                                    !.stack[Len(l.stack)].depBean = depBean]
         notFound == Err("dependency_not_found", depBeanID, f.bn.id, <<>>)
     IN
     IF Has(registeredBeans, depBeanID) THEN
       /\ th' = [th EXCEPT ![p] = visit(call(registeredBeans[depBeanID]), registeredBeans, depBeanID)]
       /\ UNCHANGED <<shared, hist>>
     ELSE IF /\ Has(requiredDependency, depBeanID)
             /\ Kind(requiredDependency[depBeanID]) = "string"
             /\ literalProvider # "nil"
     THEN
       /\ \/ /\ lpCalls' = Append(lpCalls, LpCall(depBeanID, "error"))
             /\ th' = [th EXCEPT ![p] = Fail(l, Err("literal_provider_error", depBeanID, "", <<>>))]
             /\ UNCHANGED registeredBeans
          \/ /\ lpCalls' = Append(lpCalls, LpCall(depBeanID, "notfound"))
             /\ th' = [th EXCEPT ![p] = Fail(l, notFound)]
             /\ UNCHANGED registeredBeans
          \/ LET depBean == LiteralBean(depBeanID, LiteralValue, requiredDependency[depBeanID])
                 reg == Put(registeredBeans, depBeanID, depBean)
             IN /\ lpCalls' = Append(lpCalls, LpCall(depBeanID, "value"))
                /\ UNCHANGED registeredBeans
                /\ th' = [th EXCEPT ![p] = visit(call(depBean), reg, depBeanID)]
       /\ UNCHANGED <<built, buildLock, regMu, requiredDependency, literalProvider, heap,
                      nRegs, nBuilds, initCount, initLog, injLog, nFailed>>
     ELSE
       /\ th' = [th EXCEPT ![p] = Fail(l, notFound)]
       /\ UNCHANGED <<shared, hist>>

\* Lines 118-147: the lookup of the next dependency, the literal provider for
\* a missing string, and the call visit(depBeanID).
InjectDep(p) ==
  LET l == th[p]
      f == Top(l)
  IN
  /\ l.pc = "inject"
  /\ l.stack # <<>>
  /\ f.phase = "deps"
  /\ f.i <= Len(f.bn.dependencies)
  /\ LET depBeanID == f.bn.dependencies[f.i]
         call(depBean) == [l EXCEPT !.stack[Len(l.stack)].phase = "wait",
                                    !.stack[Len(l.stack)].depBean = depBean]
         notFound == Err("dependency_not_found", depBeanID, f.bn.id, <<>>)
     IN
     IF Has(registeredBeans, depBeanID) THEN
       /\ th' = [th EXCEPT ![p] = visit(call(registeredBeans[depBeanID]), registeredBeans, depBeanID)]
       /\ UNCHANGED <<shared, hist>>
     ELSE IF /\ Has(requiredDependency, depBeanID)
             /\ Kind(requiredDependency[depBeanID]) = "string"
             /\ literalProvider # "nil"
     THEN
       /\ \/ /\ lpCalls' = Append(lpCalls, LpCall(depBeanID, "error"))
             /\ th' = [th EXCEPT ![p] = Fail(l, Err("literal_provider_error", depBeanID, "", <<>>))]
             /\ UNCHANGED registeredBeans
          \/ /\ lpCalls' = Append(lpCalls, LpCall(depBeanID, "notfound"))
             /\ th' = [th EXCEPT ![p] = Fail(l, notFound)]
             /\ UNCHANGED registeredBeans
          \/ LET depBean == LiteralBean(depBeanID, LiteralValue, requiredDependency[depBeanID])
                 reg == Put(registeredBeans, depBeanID, depBean)
             IN /\ lpCalls' = Append(lpCalls, LpCall(depBeanID, "value"))
                /\ registeredBeans' = reg
                /\ th' = [th EXCEPT ![p] = visit(call(depBean), reg, depBeanID)]
       /\ UNCHANGED <<built, buildLock, regMu, requiredDependency, literalProvider, heap,
                      nRegs, nBuilds, initCount, initLog, injLog, nFailed>>
     ELSE
       /\ th' = [th EXCEPT ![p] = Fail(l, notFound)]
       /\ UNCHANGED <<shared, hist>>

\* Lines 149-160: visit(depBeanID) returned nil; the instance check, the call
\* of injectIntoStruct and the reload of the receiver.
InjectInto(p) ==
  LET l == th[p]
      f == Top(l)
  IN
  /\ l.pc = "inject"
  /\ l.stack # <<>>
  /\ f.phase = "inject"
  /\ IF f.depBean.instance = NilV THEN
       /\ th' = [th EXCEPT ![p] = Fail(l, Err("dependency_not_instantiated", f.depBean.id, f.bn.id, <<>>))]
       /\ UNCHANGED <<shared, hist>>
     ELSE
       LET r == injectIntoStruct(f.bn, f.depBean, l.path, heap) IN
       IF r.err # NoErr THEN
         /\ th' = [th EXCEPT ![p] = Fail(l, r.err)]
         /\ UNCHANGED <<shared, hist>>
       ELSE
         /\ heap' = r.heap
         /\ injLog' = Append(injLog, <<f.id, f.depBean.id>>)
         /\ th' = [th EXCEPT ![p].stack[Len(l.stack)] =
                     [f EXCEPT !.phase = "deps", !.i = f.i + 1, !.bn = registeredBeans[f.id]]]
         /\ UNCHANGED <<built, buildLock, regMu, requiredDependency, registeredBeans,
                        literalProvider, nRegs, nBuilds, initCount, initLog, lpCalls,
                        nFailed>>

\* InjectLeave leaving the node on the onPath set.
InjectLeave_KeepOnPath(p) ==
  LET l == th[p]
      f == Top(l)
  IN
  /\ l.pc = "inject"
  /\ l.stack # <<>>
  /\ f.phase = "deps"
  /\ f.i > Len(f.bn.dependencies)
  /\ th' = [th EXCEPT ![p] =
              Returned([l EXCEPT !.path = SubSeq(@, 1, Len(@) - 1),
                                 !.visited = @ \cup {f.id},
                                 !.stack = SubSeq(@, 1, Len(@) - 1)])]
  /\ UNCHANGED <<shared, hist>>

\* Lines 164-168: the dependency loop of the top frame is over; the node is
\* left and its caller, if any, goes on.
InjectLeave(p) ==
  LET l == th[p]
      f == Top(l)
  IN
  /\ l.pc = "inject"
  /\ l.stack # <<>>
  /\ f.phase = "deps"
  /\ f.i > Len(f.bn.dependencies)
  /\ th' = [th EXCEPT ![p] =
              Returned([l EXCEPT !.onPath = @ \ {f.id},
                                 !.path = SubSeq(@, 1, Len(@) - 1),
                                 !.visited = @ \cup {f.id},
                                 !.stack = SubSeq(@, 1, Len(@) - 1)])]
  /\ UNCHANGED <<shared, hist>>

\* ---------------------------------------------------------- initializer order
\* The second traversal, lines 402-436, as the code computes it: st holds its
\* visited and onPath sets, the order built so far and the error returned.
RECURSIVE orderVisit(_, _, _)
RECURSIVE orderDeps(_, _, _, _, _)
\* orderVisit appending the bean before its dependencies.
orderVisit_PreOrder(st, reg, id) ==
  IF st.err # NoErr \/ id \in st.visited THEN st
  ELSE IF id \in st.onPath THEN [st EXCEPT !.err = Err("initorder_cycle", id, "", <<>>)]
  ELSE LET bn == reg[id]
           s1 == [st EXCEPT !.onPath = @ \cup {id}, !.order = Append(@, id)]
           s2 == IF bn.hasDependencies THEN orderDeps(s1, reg, id, bn.dependencies, 1) ELSE s1
       IN IF s2.err # NoErr THEN s2
          ELSE [s2 EXCEPT !.onPath = @ \ {id}, !.visited = @ \cup {id}]

\* orderVisit without the visited check of its first line.
orderVisit_NoVisited(st, reg, id) ==
  IF st.err # NoErr THEN st
  ELSE IF id \in st.onPath THEN [st EXCEPT !.err = Err("initorder_cycle", id, "", <<>>)]
  ELSE LET bn == reg[id]
           s1 == [st EXCEPT !.onPath = @ \cup {id}]
           s2 == IF bn.hasDependencies THEN orderDeps(s1, reg, id, bn.dependencies, 1) ELSE s1
       IN IF s2.err # NoErr THEN s2
          ELSE [s2 EXCEPT !.onPath = @ \ {id}, !.visited = @ \cup {id},
                          !.order = Append(@, id)]

orderVisit(st, reg, id) ==
  IF st.err # NoErr \/ id \in st.visited THEN st
  ELSE IF id \in st.onPath THEN [st EXCEPT !.err = Err("initorder_cycle", id, "", <<>>)]
  ELSE LET bn == reg[id]
           s1 == [st EXCEPT !.onPath = @ \cup {id}]
           s2 == IF bn.hasDependencies THEN orderDeps(s1, reg, id, bn.dependencies, 1) ELSE s1
       IN IF s2.err # NoErr THEN s2
          ELSE [s2 EXCEPT !.onPath = @ \ {id}, !.visited = @ \cup {id},
                          !.order = Append(@, id)]
orderDeps(st, reg, id, deps, i) ==
  IF i > Len(deps) \/ st.err # NoErr THEN st
  ELSE IF ~Has(reg, deps[i])
       THEN [st EXCEPT !.err = Err("initorder_not_registered", deps[i], id, <<>>)]
       ELSE orderDeps(orderVisit(st, reg, deps[i]), reg, id, deps, i + 1)

\* The range loop of lines 432-436 taking the identifiers in the order ids.
RECURSIVE orderAll(_, _, _)
orderAll(st, reg, ids) ==
  IF ids = <<>> THEN st ELSE orderAll(orderVisit(st, reg, Head(ids)), reg, Tail(ids))

\* The orders in which a range loop may yield the keys S.
RangeOrders(S) ==
  {f \in [1..Cardinality(S) -> S] : \A x \in S : \E i \in 1..Cardinality(S) : f[i] = x}

InitOrder(p) ==
  /\ th[p].pc = "order"
  /\ \E ids \in RangeOrders(DOMAIN registeredBeans) :
       LET st == orderAll([visited |-> {}, onPath |-> {}, order |-> <<>>, err |-> NoErr],
                          registeredBeans, ids)
       IN IF st.err # NoErr
          THEN th' = [th EXCEPT ![p] = Fail(th[p], st.err)]
          ELSE th' = [th EXCEPT ![p].order = st.order, ![p].k = 1, ![p].pc = "hooks"]
  /\ UNCHANGED <<shared, hist>>

\* bn.instance.(Initializer), line 443.
IsInitializer(instance, h) ==
  instance.k = "ptr" /\ h[instance.a].t \in InitTypes

\* Hook recording a failure and going on with the next bean.
Hook_ContinueOnFailure(p) ==
  LET l == th[p] IN
  /\ l.pc = "hooks"
  /\ l.k <= Len(l.order)
  /\ LET id == l.order[l.k]
         bn == registeredBeans[id]
     IN IF bn.instance = NilV \/ ~IsInitializer(bn.instance, heap) THEN
          /\ th' = [th EXCEPT ![p].k = l.k + 1]
          /\ UNCHANGED <<shared, hist>>
        ELSE
          /\ initLog' = Append(initLog, id)
          /\ initCount' = Put(initCount, bn.instance.a,
                              IF Has(initCount, bn.instance.a)
                              THEN initCount[bn.instance.a] + 1 ELSE 1)
          /\ \/ th' = [th EXCEPT ![p].k = l.k + 1]
             \/ th' = [th EXCEPT ![p].k = l.k + 1,
                                 ![p].err = Err("initializer_failed", id, "", <<>>)]
          /\ UNCHANGED <<shared, nRegs, nBuilds, injLog, lpCalls, nFailed>>

\* One turn of the loop of lines 438-448: the hook of order[k], if its bean
\* has one, is invoked and returns nil or an error.
Hook(p) ==
  LET l == th[p] IN
  /\ l.pc = "hooks"
  /\ l.k <= Len(l.order)
  /\ LET id == l.order[l.k]
         bn == registeredBeans[id]
     IN IF bn.instance = NilV \/ ~IsInitializer(bn.instance, heap) THEN
          /\ th' = [th EXCEPT ![p].k = l.k + 1]
          /\ UNCHANGED <<shared, hist>>
        ELSE
          /\ initLog' = Append(initLog, id)
          /\ initCount' = Put(initCount, bn.instance.a,
                              IF Has(initCount, bn.instance.a)
                              THEN initCount[bn.instance.a] + 1 ELSE 1)
          /\ \/ th' = [th EXCEPT ![p].k = l.k + 1]
             \/ th' = [th EXCEPT ![p] = Fail(l, Err("initializer_failed", id, "", <<>>))]
          /\ UNCHANGED <<shared, nRegs, nBuilds, injLog, lpCalls, nFailed>>

\* Line 450: the loop is over, Build returns err (nil).
HooksDone(p) ==
  /\ th[p].pc = "hooks"
  /\ th[p].k > Len(th[p].order)
  /\ th' = [th EXCEPT ![p].pc = "unlock"]
  /\ UNCHANGED <<shared, hist>>

\* BuildReturn releasing the locks only when Build returns nil.
BuildReturn_KeepLocksOnError(p) ==
  /\ th[p].pc = "unlock"
  /\ built' = (built \/ th[p].err = NoErr)
  /\ regMu' = IF th[p].err = NoErr THEN NoProc ELSE regMu
  /\ buildLock' = IF th[p].err = NoErr THEN NoProc ELSE buildLock
  /\ nFailed' = IF th[p].err = NoErr THEN nFailed ELSE nFailed + 1
  /\ th' = [th EXCEPT ![p] = AfterBuild(th[p], th[p].err)]
  /\ initLog' = <<>>
  /\ injLog' = <<>>
  /\ lpCalls' = <<>>
  /\ UNCHANGED <<requiredDependency, registeredBeans, literalProvider, heap,
                 nRegs, nBuilds, initCount>>

\* BuildReturn storing the built flag whatever the error.
BuildReturn_AlwaysStore(p) ==
  /\ th[p].pc = "unlock"
  /\ built' = TRUE
  /\ regMu' = NoProc
  /\ buildLock' = NoProc
  /\ nFailed' = IF th[p].err = NoErr THEN nFailed ELSE nFailed + 1
  /\ th' = [th EXCEPT ![p] = AfterBuild(th[p], th[p].err)]
  /\ initLog' = <<>>
  /\ injLog' = <<>>
  /\ lpCalls' = <<>>
  /\ UNCHANGED <<requiredDependency, registeredBeans, literalProvider, heap,
                 nRegs, nBuilds, initCount>>

\* The deferred calls of lines 324 and 333-339, on every return of Build after
\* the locks were taken.
BuildReturn(p) ==
  /\ th[p].pc = "unlock"
  /\ built' = (built \/ th[p].err = NoErr)
  /\ regMu' = NoProc
  /\ buildLock' = NoProc
  /\ nFailed' = IF th[p].err = NoErr THEN nFailed ELSE nFailed + 1
  /\ th' = [th EXCEPT ![p] = AfterBuild(th[p], th[p].err)]
  /\ initLog' = <<>>
  /\ injLog' = <<>>
  /\ lpCalls' = <<>>
  /\ UNCHANGED <<requiredDependency, registeredBeans, literalProvider, heap,
                 nRegs, nBuilds, initCount>>

\* -------------------------------------------------------------- ResolveSafe
\* CallResolveSafe going to the lookup without calling Build.
CallResolveSafe_NoBuild(p, beanID) ==
  /\ Ready(p)
  /\ IF beanID = emptyString THEN
       /\ th' = [th EXCEPT ![p] = Return("ResolveSafe", beanID, NilV, ErrBeanIdParamIsEmpty, built)]
       /\ UNCHANGED <<shared, hist>>
     ELSE
       /\ th' = [th EXCEPT ![p] = [Idle EXCEPT !.pc = "lookup", !.op = "ResolveSafe", !.late = built]]
       /\ UNCHANGED <<shared, hist>>

\* ResolveSafe lines 465-477. The identifier is not used before the lookup of
\* lines 479-491, where the model draws it.
CallResolveSafe(p, beanID) ==
  /\ Ready(p)
  /\ IF beanID = emptyString THEN
       /\ th' = [th EXCEPT ![p] = Return("ResolveSafe", beanID, NilV, ErrBeanIdParamIsEmpty, built)]
       /\ UNCHANGED <<shared, hist>>
     ELSE IF ~built THEN
       /\ nBuilds < MaxBuilds
       /\ nBuilds' = nBuilds + 1
       /\ th' = [th EXCEPT ![p] = [Idle EXCEPT !.pc = "build", !.op = "ResolveSafe"]]
       /\ UNCHANGED <<shared, nRegs, initCount, initLog, injLog, lpCalls, nFailed>>
     ELSE
       /\ th' = [th EXCEPT ![p] = [Idle EXCEPT !.pc = "lookup", !.op = "ResolveSafe", !.late = TRUE]]
       /\ UNCHANGED <<shared, hist>>

\* ResolveSafe lines 470 and 479-491: the lookup of strings.ToLower(rawID)
\* under the read lock.
Lookup(p, rawID) ==
  LET beanID == ToLower(rawID) IN
  /\ th[p].pc = "lookup"
  /\ regMu = NoProc
  /\ IF ~Has(registeredBeans, beanID) THEN
       th' = [th EXCEPT ![p] = Return("ResolveSafe", beanID, NilV, Err("not_found", beanID, "", <<>>), th[p].late)]
     ELSE IF registeredBeans[beanID].instance = NilV THEN
       th' = [th EXCEPT ![p] = Return("ResolveSafe", beanID, NilV, Err("not_initialized", beanID, "", <<>>), th[p].late)]
     ELSE
       th' = [th EXCEPT ![p] = Return("ResolveSafe", beanID, registeredBeans[beanID].instance, NoErr, th[p].late)]
  /\ UNCHANGED <<shared, hist>>

\* The caller takes the result of the call that returned and is free to make
\* its next call.
Continue(p) ==
  /\ th[p].pc = "done"
  /\ th' = [th EXCEPT ![p] = IF p \notin LateProcs THEN Idle
                             ELSE IF th[p].late THEN Late ELSE Conc]
  /\ UNCHANGED <<shared, hist>>

\* ------------------------------------------------------------ specification
Next ==
  \E p \in Procs :
       \/ \E beanID \in RawIDs, beanType \in RegTypes : Register(p, beanID, beanType)
       \/ \E beanID \in RawIDs, instance \in RegInstances : RegisterInstance(p, beanID, instance)
       \/ RegStore(p)
       \/ \E lp \in {"nil", "fn"} : SetLiteralProvider(p, lp)
       \/ CallBuild(p)
       \/ BuildLock(p)
       \/ Validate(p)
       \/ Instantiate(p)
       \/ InjectTop(p)
       \/ InjectDep(p)
       \/ InjectInto(p)
       \/ InjectLeave(p)
       \/ InjectDone(p)
       \/ InitOrder(p)
       \/ Hook(p)
       \/ HooksDone(p)
       \/ BuildReturn(p)
       \/ \E beanID \in RawIDs : CallResolveSafe(p, beanID)
       \/ \E beanID \in RawIDs \ {""} : Lookup(p, beanID)
       \/ Continue(p)

\* One goroutine makes every call, with every argument of the catalogue.
Spec == Init /\ [][Next]_vars

\* A step of a call in progress of goroutine p: everything but the making of a
\* call and the taking of its result.
CallStep(p) ==
  \/ RegStore(p)
  \/ BuildLock(p)
  \/ Validate(p)
  \/ Instantiate(p)
  \/ InjectTop(p)
  \/ InjectDep(p)
  \/ InjectInto(p)
  \/ InjectLeave(p)
  \/ InjectDone(p)
  \/ InitOrder(p)
  \/ Hook(p)
  \/ HooksDone(p)
  \/ BuildReturn(p)
  \/ \E beanID \in RawIDs \ {""} : Lookup(p, beanID)

\* ------------------------------------------------------------ applications
\* An application wires its container with the registration calls its code
\* contains: regCalls are the <<beanID, beanType>> arguments of its Register
\* calls, instCalls the <<beanID, instance>> arguments of its RegisterInstance
\* calls.  The calls are made in any order and any number of times, mixed
\* with SetLiteralProvider, Build and ResolveSafe calls.
NextApp(regCalls, instCalls) ==
  \E p \in Procs :
       \/ \E c \in regCalls : Register(p, c[1], c[2])
       \/ \E c \in instCalls : RegisterInstance(p, c[1], c[2])
       \/ \E lp \in {"nil", "fn"} : SetLiteralProvider(p, lp)
       \/ CallBuild(p)
       \/ \E beanID \in RawIDs : CallResolveSafe(p, beanID)
       \/ CallStep(p)
       \/ Continue(p)

\* An application of components wired through interface-typed fields: a
\* chain (Nb under a, Nc under b, Leaf under c), a component with two
\* dependencies and an untagged field (Nbc), and components registered as
\* instances.
GraphRegs ==
  {<<"a", PtrT("Nb")>>, <<"A", PtrT("Nbc")>>, <<"b", PtrT("Nc")>>,
   <<"b", PtrT("Leaf")>>, <<"c", PtrT("Leaf")>>, <<"", PtrT("Leaf")>>}
GraphInsts ==
  {<<"b", StrV("v1")>>, <<"c", StrV("v1")>>, <<"c", V("new", 0, "Leaf")>>}

\* One goroutine makes every call of that application.
SpecGraph == Init /\ [][NextApp(GraphRegs, GraphInsts)]_vars

\* An application with faulty wiring: components that depend on themselves
\* or on a bean of the wrong type, identifiers registered twice with
\* different types, types Register cannot instantiate (*int, string, a struct
\* by value), nil types and instances, empty identifiers.
MisuseRegs ==
  {<<"a", PtrT("Na")>>, <<"b", PtrT("Na")>>, <<"A", PtrT("Nbc")>>,
   <<"c", PtrT("Nbc")>>, <<"a", PtrT("Nb")>>, <<"a", PtrT("Leaf")>>,
   <<"b", PtrT("Leaf")>>, <<"b", PtrT("int")>>, <<"c", PtrT("int")>>,
   <<"c", StringT>>, <<"b", NilT>>, <<"", PtrT("Leaf")>>, <<"", NilT>>}
MisuseInsts ==
  {<<"c", NilV>>, <<"", StrV("v1")>>, <<"c", StructV("Leaf")>>}

\* One goroutine makes every call of that application.
SpecMisuse == Init /\ [][NextApp(MisuseRegs, MisuseInsts)]_vars

\* An application with configuration strings: components with a string
\* dependency (Cfg, Sc), which a registered string or the literal provider
\* supplies, next to pointer and interface dependencies.
ConfigRegs ==
  {<<"a", PtrT("Cfg")>>, <<"a", PtrT("Sc")>>, <<"b", PtrT("Sc")>>,
   <<"b", PtrT("Leaf")>>, <<"b", PtrT("Nc")>>, <<"b", PtrT("Nb")>>,
   <<"b", PtrT("Na")>>, <<"c", PtrT("Leaf")>>}
ConfigInsts ==
  {<<"c", StrV("v1")>>, <<"b", StrV("v1")>>}

\* One goroutine makes every call of that application.
SpecConfig == Init /\ [][NextApp(ConfigRegs, ConfigInsts)]_vars

\* An application whose component Svc has a field of the exact pointer type
\* of a dependency with fields (Nb) and one of the exact pointer type of a
\* zero-size dependency (Leaf), and whose component Sd, which several
\* dependents (Nc) can share, has a dependency of its own: a string that only
\* the literal provider supplies.
ShareRegs ==
  {<<"a", PtrT("Nb")>>, <<"b", PtrT("Leaf")>>, <<"c", PtrT("Svc")>>,
   <<"a", PtrT("Nc")>>, <<"b", PtrT("Nc")>>, <<"c", PtrT("Sd")>>}
ShareInsts ==
  {<<"b", V("new", 0, "Leaf")>>}

\* One goroutine makes every call of that application.
SpecShare == Init /\ [][NextApp(ShareRegs, ShareInsts)]_vars

\* An application used by two goroutines: components with a dependency (Na,
\* Nb, and Sc, whose string the literal provider can supply) and components
\* without (Leaf, a string), by type and as instances.
ConcRegs ==
  {<<"a", PtrT("Na")>>, <<"a", PtrT("Nb")>>, <<"b", PtrT("Leaf")>>,
   <<"b", PtrT("Sc")>>, <<"", PtrT("Leaf")>>}
ConcInsts ==
  {<<"a", V("new", 0, "Leaf")>>, <<"b", StrV("v1")>>}

\* A second goroutine calls Build and ResolveSafe once the container is closed.
SpecLate == InitLate /\ [][NextApp(ConcRegs, ConcInsts)]_vars

\* A second goroutine calls Build and ResolveSafe concurrently with the calls
\* of the first, on the open container as on the closed one.
SpecConc == InitConc /\ [][NextApp(ConcRegs, ConcInsts)]_vars

\* The scheduler runs every goroutine that can take a step: a call in
\* progress that is not waiting for a lock goes on, and a goroutine waiting
\* for a lock gets it once it stays free.
Fairness == \A p \in Procs : WF_vars(CallStep(p))

\* The steps of the fair specification: those of the application of two
\* goroutines, with the registrations that reach the scanner capped at
\* MaxLiveRegs.
NextLive ==
  \E p \in Procs :
       \/ \E c \in ConcRegs : Register(p, c[1], c[2]) /\ nRegs' <= MaxLiveRegs
       \/ \E c \in ConcInsts :
            RegisterInstance(p, c[1], c[2]) /\ nRegs' <= MaxLiveRegs
       \/ \E lp \in {"nil", "fn"} : SetLiteralProvider(p, lp)
       \/ CallBuild(p)
       \/ \E beanID \in RawIDs : CallResolveSafe(p, beanID)
       \/ CallStep(p)
       \/ Continue(p)

\* Two goroutines as in SpecConc, under a fair scheduler.
SpecLive == InitConc /\ [][NextLive]_vars /\ Fairness

\* ------------------------------------------------------------------ properties
\* The step is one of a Build or ResolveSafe call of p.
BuildOrResolveStep(p) ==
  /\ th'[p] # th[p]
  /\ th[p].op \in {"Build", "ResolveSafe"} \/ th'[p].op \in {"Build", "ResolveSafe"}

\* The elements of a sequence.
Range(s) == {s[i] : i \in 1..Len(s)}

\* The number of occurrences of x in s.
Count(s, x) == Cardinality({i \in 1..Len(s) : s[i] = x})

\* The registered beans whose instance has the post-injection hook.
HookBeans ==
  {id \in DOMAIN registeredBeans :
     /\ registeredBeans[id].instance # NilV
     /\ IsInitializer(registeredBeans[id].instance, heap)}

\* C1 (idempotent build): once a Build has succeeded, a later Build call
\* returns no error, a later ResolveSafe call that returns an instance returns
\* the one the registry holds for that identifier, and no step of such a call
\* changes the registry, the requirements, the objects or the number of times a
\* hook was invoked: nothing is instantiated, injected or initialized again.
C1_IdempotentBuild ==
  /\ [](\A p \in Procs :
          th[p].pc = "done" /\ th[p].late =>
            /\ th[p].op = "Build" => th[p].rerr = NoErr
            /\ th[p].op = "ResolveSafe" /\ th[p].rerr = NoErr =>
                 /\ Has(registeredBeans, th[p].id)
                 /\ th[p].val = registeredBeans[th[p].id].instance
                 /\ th[p].val # NilV)
  /\ [][\A p \in Procs :
          built /\ BuildOrResolveStep(p) =>
            UNCHANGED <<built, requiredDependency, registeredBeans, heap, initCount,
                        initLog, injLog, lpCalls>>]_vars

\* On a closed container whose beans have dependencies and hooks, a Build
\* call of one goroutine has returned while a ResolveSafe call of another,
\* made meanwhile, has returned an instance.
C1_Witness ==
  \E p \in Procs, q \in Procs :
    /\ p # q
    /\ th[p].pc = "done" /\ th[p].late /\ th[p].op = "Build"
    /\ th[q].pc = "done" /\ th[q].late /\ th[q].op = "ResolveSafe"
    /\ th[q].rerr = NoErr
    /\ HookBeans # {}
    /\ \E id \in DOMAIN registeredBeans : registeredBeans[id].hasDependencies

\* C2 as stated (closed after build): every Register or RegisterInstance call
\* made after a successful Build returns the registration-closed error and
\* leaves registry and requirements unchanged.
C2_AsStated ==
  [][\A p \in Procs :
       /\ \A beanID \in RawIDs, beanType \in RegTypes :
            built /\ Register(p, beanID, beanType) =>
              /\ th'[p].rerr = ErrRegistrationClosed
              /\ UNCHANGED <<registeredBeans, requiredDependency>>
       /\ \A beanID \in RawIDs, instance \in RegInstances :
            built /\ RegisterInstance(p, beanID, instance) =>
              /\ th'[p].rerr = ErrRegistrationClosed
              /\ UNCHANGED <<registeredBeans, requiredDependency>>]_vars

\* C2 (closed after build, amended): every Register or RegisterInstance call
\* made after a successful Build returns at once with an error and leaves
\* registry and requirements unchanged; the error is the registration-closed
\* error when the identifier is not empty and the type or instance is not nil,
\* the empty-identifier error when the identifier is empty, and the
\* nil-argument error otherwise.
C2_ClosedAfterBuild ==
  [][\A p \in Procs :
       /\ \A beanID \in RawIDs, beanType \in RegTypes :
            built /\ Register(p, beanID, beanType) =>
              /\ th'[p].pc = "done"
              /\ th'[p].rerr = (IF beanID = emptyString THEN ErrBeanIdParamIsEmpty
                                ELSE IF beanType = NilT THEN ErrBeanTypeParamIsNil
                                ELSE ErrRegistrationClosed)
              /\ UNCHANGED <<registeredBeans, requiredDependency>>
       /\ \A beanID \in RawIDs, instance \in RegInstances :
            built /\ RegisterInstance(p, beanID, instance) =>
              /\ th'[p].pc = "done"
              /\ th'[p].rerr = (IF beanID = emptyString THEN ErrBeanIdParamIsEmpty
                                ELSE IF instance = NilV THEN ErrBeanParamIsNil
                                ELSE ErrRegistrationClosed)
              /\ UNCHANGED <<registeredBeans, requiredDependency>>]_vars

\* A registration call made on a closed container was rejected as closed.
C2_Witness ==
  \E p \in Procs :
    /\ built /\ th[p].pc = "done" /\ th[p].late
    /\ th[p].op \in {"Register", "RegisterInstance"}
    /\ th[p].rerr = ErrRegistrationClosed

\* C3 (lifecycle monotonicity): the container starts open; once closed it never
\* opens again; and it closes only in the step in which a Build that ran its
\* finalization returns no error.
C3_LifecycleMonotonic ==
  /\ ~built
  /\ [][/\ built => built'
        /\ ~built /\ built' =>
             \E p \in Procs :
               /\ th[p].pc = "unlock" /\ th[p].err = NoErr
               /\ th[p].op \in {"Build", "ResolveSafe"}
               /\ th'[p].pc \in {"done", "lookup"}]_vars

\* A Build has failed and a later one has closed the container.
C3_Witness ==
  built /\ nFailed > 0 /\ \E p \in Procs : th[p].pc = "done" /\ th[p].op = "Build"

\* C4 (a failed build keeps the container open): when a Build returns an
\* error the container is still open, so no registration is rejected as closed
\* while it is open, and a Build call made on an open container runs the
\* finalization (validation first) again.
C4_FailedBuildKeepsOpen ==
  /\ [](\A p \in Procs :
          /\ th[p].pc = "done" /\ th[p].op = "Build" /\ th[p].rerr # NoErr => ~built
          /\ th[p].pc = "done" /\ th[p].op \in {"Register", "RegisterInstance"}
               /\ th[p].rerr = ErrRegistrationClosed => built)
  /\ [][\A p \in Procs :
          /\ th[p].pc = "unlock" /\ th[p].err # NoErr /\ th'[p] # th[p] => ~built'
          /\ ~built /\ th[p].pc = "build" /\ th'[p] # th[p] => th'[p].pc = "validate"
          /\ \A beanID \in IDs, n \in RegStructs :
               ~built /\ Register(p, beanID, PtrT(n)) => th'[p].pc = "reg_store"]_vars

\* A Build failed and a retried Build succeeded, where no bean has a hook and
\* no requirement is a string: what failed was the registrations, and they
\* were corrected in between.
C4_Witness ==
  /\ built /\ nFailed > 0
  /\ HookBeans = {}
  /\ \A id \in DOMAIN requiredDependency : Kind(requiredDependency[id]) # "string"
  /\ \E p \in Procs : th[p].pc = "done" /\ th[p].op = "Build" /\ th[p].rerr = NoErr

\* C5 as stated (non-nil instance after a successful build): once a Build has
\* succeeded every registered bean has a non-nil instance.
C5_AsStated ==
  built => \A id \in DOMAIN registeredBeans : registeredBeans[id].instance # NilV

\* The identifiers d with an edge id -> d of the dependency graph over the
\* registered beans.
Succ(reg, id) == {d \in Range(reg[id].dependencies) : Has(reg, d)}

\* The identifiers reached from the set S in one step or more, in at most n
\* rounds.
RECURSIVE ReachFrom(_, _, _)
ReachFrom(reg, S, n) ==
  LET next == UNION {Succ(reg, x) : x \in S}
  IN IF n = 0 THEN {} ELSE next \cup ReachFrom(reg, next, n - 1)

\* The dependency graph over the registered beans has a cycle.
HasCycle(reg) ==
  \E id \in DOMAIN reg : id \in ReachFrom(reg, {id}, Cardinality(DOMAIN reg))

\* Every required dependency is registered with a compatible type.
AllRequiredCompatible ==
  \A id \in DOMAIN requiredDependency :
    /\ Has(registeredBeans, id)
    /\ Compatible(requiredDependency[id], registeredBeans[id].beanType)

\* C6 as stated (cycle detection is complete): a Build over registrations in
\* which every required dependency is registered with a compatible type and
\* whose dependency graph has a cycle returns a cyclic-dependency error.
C6_AsStated ==
  \A p \in Procs :
    th[p].pc = "unlock" /\ AllRequiredCompatible /\ HasCycle(registeredBeans) =>
      th[p].err.k = "cycle"

\* C7 (initializer ordering): at the end of a Build that succeeds, for any two
\* beans with a hook of which one declares the other as a dependency, both
\* hooks were invoked and the dependency's hook was invoked first.
C7_InitializerOrdering ==
  \A p \in Procs :
    th[p].pc = "unlock" /\ th[p].err = NoErr =>
      \A x \in HookBeans, y \in HookBeans :
        y \in Range(registeredBeans[x].dependencies) =>
          \E i \in 1..Len(initLog), j \in 1..Len(initLog) :
            i < j /\ initLog[i] = y /\ initLog[j] = x

\* A successful Build invoked the hooks of a chain of three beans.
C7_Witness ==
  \E p \in Procs :
    /\ th[p].pc = "unlock" /\ th[p].err = NoErr
    /\ \E x \in HookBeans, y \in HookBeans, z \in HookBeans :
         /\ y \in Range(registeredBeans[x].dependencies)
         /\ z \in Range(registeredBeans[y].dependencies)

\* Every declared dependency of every registered bean has been handed to
\* injectIntoStruct, which returned nil.
AllInjected ==
  \A id \in DOMAIN registeredBeans :
    \A d \in Range(registeredBeans[id].dependencies) : <<id, d>> \in Range(injLog)

\* Every field that the scanner recorded as a dependency, in every registered
\* bean whose instance is a struct, holds a value other than its zero value.
DepFieldsSet ==
  \A id \in DOMAIN registeredBeans :
    LET inst == registeredBeans[id].instance IN
    inst.k = "ptr" /\ heap[inst.a].t \in StructNames =>
      \A i \in 1..Len(Fields(heap[inst.a].t)) :
        IsDepField(Fields(heap[inst.a].t)[i]) =>
          heap[inst.a].f[i] # ZeroOf(Fields(heap[inst.a].t)[i].type)

\* C8 as stated (hooks only after injection is complete): once a hook has been
\* invoked, every registered bean has been visited, every declared dependency
\* of every registered bean has been injected, and every field declared as a
\* dependency holds its injected value, so that a hook sees its own fields and
\* those of its dependencies set.
C8_AsStated ==
  initLog # <<>> =>
    /\ \A p \in Procs : th[p].pc \in {"hooks", "unlock"} =>
         DOMAIN registeredBeans \subseteq th[p].visited
    /\ AllInjected
    /\ DepFieldsSet

\* The part of C8 that is about the order of the two passes: a hook is invoked
\* only by a Build in its hook loop, and from the entry of that loop on every
\* registered bean has been visited, injectIntoStruct has returned nil for
\* every declared dependency, and no object is written any more.
HooksAfterInjectionPass ==
  /\ [](/\ initLog # <<>> => \E p \in Procs : th[p].pc \in {"hooks", "unlock"}
        /\ \A p \in Procs :
             th[p].pc = "hooks" \/ (th[p].pc = "unlock" /\ initLog # <<>>) =>
               /\ DOMAIN registeredBeans \subseteq th[p].visited
               /\ th[p].stack = <<>>
               /\ AllInjected)
  /\ [][/\ initCount' # initCount => \E p \in Procs : th[p].pc = "hooks"
        /\ (\E p \in Procs : th[p].pc = "hooks") =>
             UNCHANGED <<heap, registeredBeans, injLog>>]_vars

\* C9 as stated (a hook is invoked exactly once): once a Build has succeeded,
\* the hook of every bean that has one has been invoked exactly once since the
\* container was made, the attempts of earlier failed Builds included, and no
\* later step invokes it again.
C9_AsStated ==
  /\ [](built => \A id \in HookBeans : Has(initCount, registeredBeans[id].instance.a)
                    /\ initCount[registeredBeans[id].instance.a] = 1)
  /\ [][built => initCount' = initCount]_vars

\* C9 (a hook is invoked exactly once, amended): the Build that succeeds
\* invokes the hook of every bean that has one exactly once, and no later step
\* invokes a hook again; the hooks an earlier failed Build invoked are invoked
\* again by the retry, so that a hook may have been invoked more than once
\* since the container was made.
C9_HookOncePerSuccessfulBuild ==
  /\ [](\A p \in Procs :
          th[p].pc = "unlock" /\ th[p].err = NoErr =>
            /\ \A id \in HookBeans : Count(initLog, id) = 1
            /\ Range(initLog) = HookBeans)
  /\ [](built => \A id \in HookBeans : Has(initCount, registeredBeans[id].instance.a)
                    /\ initCount[registeredBeans[id].instance.a] >= 1)
  /\ [][built => initCount' = initCount]_vars

\* A retried Build has succeeded and invoked, once, a hook that the failed
\* Build before it had invoked already.
C9_Witness ==
  \E p \in Procs :
    /\ th[p].pc = "unlock" /\ th[p].err = NoErr /\ nFailed > 0
    /\ \E id \in HookBeans :
         /\ Count(initLog, id) = 1
         /\ initCount[registeredBeans[id].instance.a] = 2

\* C10 (a hook failure aborts the build): when a hook reports failure the
\* Build returns an error naming the bean whose hook was invoked last, no hook
\* of a bean later in the order is invoked, and the container stays open.
C10_HookFailureAborts ==
  /\ [](\A p \in Procs :
          /\ th[p].pc = "unlock" /\ th[p].err.k = "initializer_failed" =>
               /\ ~built
               /\ initLog # <<>> /\ initLog[Len(initLog)] = th[p].err.id
               /\ th[p].order[th[p].k] = th[p].err.id
               /\ \A j \in (th[p].k + 1)..Len(th[p].order) :
                    th[p].order[j] \notin Range(initLog)
          /\ th[p].pc = "done" /\ th[p].rerr.k = "initializer_failed" => ~built)
  /\ [][\A p \in Procs :
          /\ th[p].err.k = "initializer_failed" /\ th'[p] # th[p] =>
               /\ initCount' = initCount
               /\ ~built'
               /\ th'[p].pc = "done" /\ th'[p].rerr = th[p].err
          /\ th[p].pc = "hooks" /\ initCount' # initCount /\ th'[p].pc = "hooks" =>
               th'[p].err = NoErr /\ th'[p].k = th[p].k + 1
          /\ th[p].pc = "hooks" /\ th'[p].pc = "unlock" /\ initCount' # initCount =>
               th'[p].err = Err("initializer_failed", th[p].order[th[p].k], "", <<>>)]_vars

\* A hook failed while a bean later in the order has a hook too.
C10_Witness ==
  \E p \in Procs :
    /\ th[p].pc = "unlock" /\ th[p].err.k = "initializer_failed"
    /\ \E j \in (th[p].k + 1)..Len(th[p].order) : th[p].order[j] \in HookBeans

\* The string fields the scanner recorded, in the registered beans whose
\* instance is a struct: <<address, field index, identifier of the tag>>.
StringDepFields ==
  {sf \in (1..Len(heap)) \X (1..3) \X IDs :
     /\ \E id \in DOMAIN registeredBeans : registeredBeans[id].instance = PtrV(sf[1])
     /\ heap[sf[1]].t \in StructNames
     /\ sf[2] <= Len(Fields(heap[sf[1]].t))
     /\ IsDepField(Fields(heap[sf[1]].t)[sf[2]])
     /\ Kind(Fields(heap[sf[1]].t)[sf[2]].type) = "string"
     /\ sf[3] = ToLower(Fields(heap[sf[1]].t)[sf[2]].tag)}

\* The identifiers the finalization in progress asked the provider for.
LpIds == {lpCalls[i].id : i \in 1..Len(lpCalls)}

\* C11 (literal fallback precedence): the literal provider is queried only by
\* the injection traversal, never by the validation, and only for an identifier
\* under which no bean is registered at that moment; and at the end of a Build
\* that succeeds without having queried the provider for identifier d, a string
\* field annotated with d holds the string registered under d.
C11_LiteralFallbackPrecedence ==
  /\ [](\A p \in Procs :
          th[p].pc = "unlock" /\ th[p].err = NoErr =>
            \A sf \in StringDepFields :
              /\ Has(registeredBeans, sf[3])
              /\ sf[3] \notin LpIds
              /\ registeredBeans[sf[3]].beanType = StringT
              => heap[sf[1]].f[sf[2]] = registeredBeans[sf[3]].instance)
  /\ [][/\ lpCalls' # lpCalls /\ lpCalls' # <<>> =>
             /\ Len(lpCalls') = Len(lpCalls) + 1
             /\ SubSeq(lpCalls', 1, Len(lpCalls)) = lpCalls
             /\ ~Has(registeredBeans, lpCalls'[Len(lpCalls')].id)
             /\ \E p \in Procs : th[p].pc = "inject"
        /\ (\E p \in Procs : th[p].pc \in {"validate", "instantiate"}) =>
             lpCalls' = lpCalls]_vars

\* A Build has succeeded with a provider installed and never queried, and a
\* string field holds the string that was registered under its identifier.
C11_Witness ==
  \E p \in Procs :
    /\ th[p].pc = "unlock" /\ th[p].err = NoErr
    /\ literalProvider = "fn" /\ lpCalls = <<>>
    /\ \E sf \in StringDepFields :
         /\ Has(registeredBeans, sf[3])
         /\ registeredBeans[sf[3]].instance = StrV("v1")
         /\ heap[sf[1]].f[sf[2]] = StrV("v1")

\* C12 (literal fallback activation): a Build that asks the provider for a
\* missing string dependency goes on as the answer says.  On a value the
\* dependency is registered with that value, the traversal goes on, and the
\* injection that follows succeeds and leaves the value in the receiver's
\* string fields annotated with the identifier; on "not found" the Build
\* returns the dependency-not-found error naming the dependency and the bean
\* that declares it; on an error it returns the error that wraps the
\* provider's, naming the dependency.  Only the last answer of a Build can be
\* other than a value.
C12_LiteralFallbackActivation ==
  /\ [](\A i \in 1..Len(lpCalls) :
          LET c == lpCalls[i] IN
          /\ i < Len(lpCalls) => c.ans = "value"
          /\ c.ans = "value" =>
               /\ Has(registeredBeans, c.id)
               /\ registeredBeans[c.id].instance = LiteralValue
               /\ \A p \in Procs : th[p].pc = "unlock" =>
                    (th[p].err.k \in {"literal_provider_error", "dependency_not_found",
                                     "dependency_not_instantiated"} => th[p].err.id # c.id)
               /\ \A sf \in StringDepFields :
                    /\ sf[3] = c.id
                    /\ \E r \in DOMAIN registeredBeans :
                         /\ registeredBeans[r].instance = PtrV(sf[1])
                         /\ <<r, c.id>> \in Range(injLog)
                    => heap[sf[1]].f[sf[2]] = LiteralValue
          /\ c.ans = "notfound" =>
               \E p \in Procs :
                 /\ th[p].pc = "unlock"
                 /\ th[p].err.k = "dependency_not_found" /\ th[p].err.id = c.id
                 /\ Has(registeredBeans, th[p].err.id2)
                 /\ c.id \in Range(registeredBeans[th[p].err.id2].dependencies)
          /\ c.ans = "error" =>
               \E p \in Procs :
                 /\ th[p].pc = "unlock"
                 /\ th[p].err = Err("literal_provider_error", c.id, "", <<>>))
  /\ [][\A p \in Procs :
          /\ th[p].pc = "inject" /\ th[p].stack # <<>> /\ th'[p] # th[p]
          /\ Top(th[p]).phase = "inject"
          /\ Top(th[p]).depBean.id \in LpIds
          => /\ th'[p].pc = "inject"
             /\ injLog' = Append(injLog, <<Top(th[p]).id, Top(th[p]).depBean.id>>)]_vars

\* A Build in which the provider answered "not found" or with an error has
\* failed, and the Build after it has succeeded with the provider's value in a
\* string field.
C12_Witness ==
  \E p \in Procs :
    /\ th[p].pc = "unlock" /\ th[p].err = NoErr /\ nFailed > 0
    /\ \E i \in 1..Len(lpCalls) : lpCalls[i].ans = "value"
    /\ \E sf \in StringDepFields :
         sf[3] \in LpIds /\ heap[sf[1]].f[sf[2]] = LiteralValue

\* The required identifiers under which no bean is registered and whose
\* expected type is not string.
MissingNonScalar ==
  {id \in DOMAIN requiredDependency :
     ~Has(registeredBeans, id) /\ Kind(requiredDependency[id]) # "string"}

MissingRequired ==
  {id \in DOMAIN requiredDependency :
     /\ ~Has(registeredBeans, id)
     /\ Kind(requiredDependency[id]) # "string" \/ literalProvider = "nil"}
Mismatched ==
  {id \in DOMAIN requiredDependency :
     /\ Has(registeredBeans, id)
     /\ ~Compatible(requiredDependency[id], registeredBeans[id].beanType)}

\* C14 as stated (a missing required bean fails validation first): for every
\* required identifier that has no registered bean and is not left to the
\* provider, the Build ends with the required-but-not-registered error naming
\* that identifier.
C14_AsStated ==
  \A p \in Procs :
    th[p].pc = "unlock" =>
      \A id \in MissingRequired : th[p].err = Err("required_not_registered", id, "", <<>>)

\* C14 (a missing required bean fails validation first, amended): when some
\* required identifier has no registered bean and is not left to the provider,
\* the validation ends the Build with the error of one failing entry: the
\* required-but-not-registered error naming one of the missing identifiers, or
\* the type-mismatch error of an entry registered with an incompatible type;
\* it is the former, naming that identifier, when it is the only failing
\* entry. Nothing has been instantiated, injected or initialized, and registry,
\* requirements and objects are as they were when the Build is left with that
\* error.
C14_MissingRequiredFailsValidation ==
  /\ [](\A p \in Procs :
          th[p].pc = "unlock" /\ MissingRequired # {} =>
            /\ \/ /\ th[p].err.k = "required_not_registered"
                  /\ th[p].err.id \in MissingRequired
               \/ /\ th[p].err.k = "type_mismatch"
                  /\ th[p].err.id \in Mismatched
            /\ injLog = <<>> /\ initLog = <<>> /\ lpCalls = <<>>)
  /\ [][\A p \in Procs :
          /\ th[p].pc = "validate" /\ MissingRequired # {} /\ th'[p] # th[p] =>
               /\ th'[p].pc = "unlock"
               /\ th'[p].err \in
                    {Err("required_not_registered", id, "", <<>>) : id \in MissingRequired}
                      \cup {Err("type_mismatch", id, "", <<>>) : id \in Mismatched}
               /\ UNCHANGED <<registeredBeans, requiredDependency, heap, initCount, built>>
          /\ th[p].pc = "unlock" /\ MissingRequired # {} /\ th'[p] # th[p] =>
               /\ th'[p].pc = "done" /\ th'[p].rerr = th[p].err
               /\ UNCHANGED <<registeredBeans, requiredDependency, heap, initCount, built>>]_vars

\* A Build ended with the required-but-not-registered error while two required
\* identifiers were missing and a third was registered with an incompatible
\* type.
C14_Witness ==
  \E p \in Procs :
    /\ th[p].pc = "unlock" /\ th[p].err.k = "required_not_registered"
    /\ Cardinality(MissingRequired) >= 2
    /\ Mismatched # {}

\* The registered type satisfies the expected type: for a struct, it is the
\* pointer to that struct; for an interface, the registered type implements
\* it; for a string, it is string.
Satisfies(registered, expected) ==
  \/ /\ expected.k = "struct"
     /\ registered = [k |-> "ptr", n |-> expected.n]
  \/ /\ expected = AnyT
  \/ /\ expected = InitializerT
     /\ registered.k = "ptr" /\ registered.n \in InitTypes
  \/ /\ expected.k = "string"
     /\ registered.k = "string"

\* The required identifiers registered with a type that does not satisfy the
\* expected type.
Unsatisfied ==
  {id \in DOMAIN requiredDependency :
     /\ Has(registeredBeans, id)
     /\ ~Satisfies(registeredBeans[id].beanType, requiredDependency[id])}

\* C15 as stated (type-compatibility validation): whenever a bean is
\* registered under a required identifier with a type that does not satisfy
\* the expected type, the Build ends with a type-mismatch error.
C15_AsStated ==
  \A p \in Procs :
    th[p].pc = "unlock" /\ Unsatisfied # {} => th[p].err.k = "type_mismatch"

\* C15 (type-compatibility validation, amended): whenever a bean is registered
\* under a required identifier with a type that does not satisfy the expected
\* type, the validation ends the Build with the error of one failing entry:
\* the type-mismatch error naming such an identifier, or the
\* required-but-not-registered error of a missing one; it is the type-mismatch
\* error when no required identifier is missing. No bean is instantiated or
\* injected and no hook is invoked.
C15_TypeCompatibilityValidation ==
  /\ [](\A p \in Procs :
          th[p].pc = "unlock" /\ Unsatisfied # {} =>
            /\ \/ /\ th[p].err.k = "type_mismatch"
                  /\ th[p].err.id \in Unsatisfied
               \/ /\ th[p].err.k = "required_not_registered"
                  /\ th[p].err.id \in MissingRequired
            /\ MissingRequired = {} => th[p].err.k = "type_mismatch"
            /\ injLog = <<>> /\ initLog = <<>> /\ lpCalls = <<>>)
  /\ [][\A p \in Procs :
          th[p].pc = "validate" /\ Unsatisfied # {} /\ th'[p] # th[p] =>
            /\ th'[p].pc = "unlock"
            /\ UNCHANGED <<registeredBeans, requiredDependency, heap, initCount, built>>]_vars

\* A Build ended with the type-mismatch error for a bean that does not
\* implement the expected interface, while another required identifier was
\* missing.
C15_Witness ==
  \E p \in Procs :
    /\ th[p].pc = "unlock" /\ th[p].err.k = "type_mismatch"
    /\ requiredDependency[th[p].err.id] = InitializerT
    /\ MissingRequired # {}

\* C16 (annotation exclusivity): a field without annotation, and a field that
\* is not exported, keeps its zero value in every object, whatever beans are
\* registered; and a step that changes an annotated field is the injection, by
\* the traversal, of the bean registered under the identifier of the field's
\* annotation into the receiver the object belongs to, and leaves in the field
\* that bean's instance or an instance allocated in that step.
C16_AnnotationExclusivity ==
  /\ [](\A a \in 1..Len(heap) : \A i \in 1..Len(heap[a].f) :
          LET sf == Fields(heap[a].t)[i] IN
          ~sf.hasTag \/ ~sf.exported => heap[a].f[i] = ZeroOf(sf.type))
  /\ [][\A a \in 1..Len(heap) : \A i \in 1..Len(heap[a].f) :
          heap'[a].f[i] # heap[a].f[i] =>
            LET sf == Fields(heap[a].t)[i] IN
            /\ sf.hasTag
            /\ \E p \in Procs :
                 /\ th[p].pc = "inject" /\ th[p].stack # <<>>
                 /\ Top(th[p]).phase = "inject"
                 /\ Top(th[p]).bn.instance = PtrV(a)
                 /\ Top(th[p]).depBean.id = ToLower(sf.tag)
                 /\ Has(registeredBeans, ToLower(sf.tag))
                 /\ registeredBeans[ToLower(sf.tag)] = Top(th[p]).depBean
                 /\ \/ heap'[a].f[i] = Top(th[p]).depBean.instance
                    \/ /\ heap'[a].f[i].k = "ptr"
                       /\ heap'[a].f[i].a > Len(heap)
                       /\ PtrT(heap'[heap'[a].f[i].a].t) = Top(th[p]).depBean.beanType]_vars

\* A Build has succeeded on a receiver whose annotated fields are set and
\* whose field without annotation is nil although a bean of that field's type
\* is registered.
C16_Witness ==
  \E p \in Procs, a \in 1..Len(heap) :
    /\ th[p].pc = "unlock" /\ th[p].err = NoErr
    /\ heap[a].t = "Nbc"
    /\ heap[a].f[1] # NilV /\ heap[a].f[2] # NilV /\ heap[a].f[3] = NilV
    /\ \E id \in DOMAIN registeredBeans :
         registeredBeans[id].beanType = Fields("Nbc")[3].type

\* A struct without fields has size zero.  Go leaves it open whether pointers
\* to distinct zero-size variables are equal; every allocation of a zero-size
\* object (reflect.New, &T{}) may return one and the same address.
ZeroSize(n) == n \in StructNames /\ Len(Fields(n)) = 0

\* The comparison v == w of two pointers into heap h can yield true.
SamePointer(v, w, h) ==
  /\ v.k = "ptr" /\ w.k = "ptr"
  /\ v.a = w.a \/ (ZeroSize(h[v.a].t) /\ ZeroSize(h[w.a].t))

\* The pairs of distinct annotated fields of one registered component whose
\* annotations name two distinct identifiers under which beans of one and the
\* same type are registered: <<address, field, field>>.
TwinFields ==
  {tw \in (1..Len(heap)) \X (1..3) \X (1..3) :
     /\ \E id \in DOMAIN registeredBeans : registeredBeans[id].instance = PtrV(tw[1])
     /\ heap[tw[1]].t \in StructNames
     /\ tw[2] < tw[3] /\ tw[3] <= Len(Fields(heap[tw[1]].t))
     /\ LET f == Fields(heap[tw[1]].t)[tw[2]]
            g == Fields(heap[tw[1]].t)[tw[3]]
        IN /\ IsDepField(f) /\ IsDepField(g)
           /\ f.type = g.type
           /\ ToLower(f.tag) # ToLower(g.tag)
           /\ Has(registeredBeans, ToLower(f.tag)) /\ Has(registeredBeans, ToLower(g.tag))
           /\ registeredBeans[ToLower(f.tag)].beanType = registeredBeans[ToLower(g.tag)].beanType
           /\ Kind(registeredBeans[ToLower(f.tag)].beanType) = "ptr"}

\* C17 as stated (disambiguation by identifier): at the end of a Build that
\* succeeds, two distinct annotated fields of one component that received two
\* dependencies of one type registered under two distinct identifiers hold two
\* instances that are observably distinct: the two pointers do not compare
\* equal, however the dependencies were registered.
C17_AsStated ==
  \A p \in Procs :
    th[p].pc = "unlock" /\ th[p].err = NoErr =>
      \A tw \in TwinFields :
        ~SamePointer(heap[tw[1]].f[tw[2]], heap[tw[1]].f[tw[3]], heap)

\* What holds of such a pair of fields: each holds the instance of the bean
\* registered under its own identifier, and the two are the results of two
\* allocations.
TwinFieldsFromTheirBeans ==
  \A p \in Procs :
    th[p].pc = "unlock" /\ th[p].err = NoErr =>
      \A tw \in TwinFields :
        LET f == Fields(heap[tw[1]].t)[tw[2]]
            g == Fields(heap[tw[1]].t)[tw[3]]
        IN /\ heap[tw[1]].f[tw[2]] = registeredBeans[ToLower(f.tag)].instance
           /\ heap[tw[1]].f[tw[3]] = registeredBeans[ToLower(g.tag)].instance
           /\ heap[tw[1]].f[tw[2]].a # heap[tw[1]].f[tw[3]].a

\* C18 (ResolveSafe builds on first use and never serves an open container):
\* a ResolveSafe call with a non-empty identifier made on an open container
\* calls Build, which runs the finalization; when that Build returns an error,
\* ResolveSafe returns that error and no instance and the container is open;
\* the lookup is made only on a closed container; and a ResolveSafe call
\* returns either the empty-identifier error, or the error of its Build, or,
\* the container being closed, the not-found error when the identifier is not
\* registered, the not-initialized error when its instance is nil, and
\* otherwise the instance the registry holds, which is not nil.
C18_ResolveSafeBuildsFirst ==
  /\ [](\A p \in Procs :
          /\ th[p].pc = "lookup" => built
          /\ th[p].pc = "done" /\ th[p].op = "ResolveSafe" =>
               \/ th[p].rerr = ErrBeanIdParamIsEmpty /\ th[p].val = NilV /\ th[p].id = emptyString
               \/ /\ th[p].rerr.k \notin {"nil", "not_found", "not_initialized",
                                          "ErrBeanIdParamIsEmpty"}
                  /\ th[p].val = NilV /\ ~built /\ ~th[p].late
               \/ /\ th[p].rerr.k = "not_found" /\ th[p].val = NilV
                  /\ built /\ ~Has(registeredBeans, th[p].id)
               \/ /\ th[p].rerr.k = "not_initialized" /\ th[p].val = NilV
                  /\ built /\ Has(registeredBeans, th[p].id)
                  /\ registeredBeans[th[p].id].instance = NilV
               \/ /\ th[p].rerr = NoErr /\ th[p].val # NilV
                  /\ built /\ Has(registeredBeans, th[p].id)
                  /\ th[p].val = registeredBeans[th[p].id].instance)
  /\ [][\A p \in Procs :
          /\ \A beanID \in RawIDs \ {emptyString} :
               ~built /\ CallResolveSafe(p, beanID) =>
                 th'[p].pc = "build" /\ th'[p].op = "ResolveSafe"
          /\ ~built /\ th[p].pc = "build" /\ th[p].op = "ResolveSafe" /\ th'[p] # th[p] =>
               th'[p].pc = "validate"
          /\ th[p].pc = "unlock" /\ th[p].op = "ResolveSafe" /\ th'[p] # th[p] =>
               IF th[p].err = NoErr
               THEN th'[p].pc = "lookup" /\ built'
               ELSE /\ th'[p].pc = "done" /\ th'[p].rerr = th[p].err
                    /\ th'[p].val = NilV /\ ~built']_vars

\* A ResolveSafe call made on the open container has failed with the error of
\* its Build; a later one, made on the container still open, has built it and
\* returned an instance.
C18_Witness ==
  \E p \in Procs :
    /\ th[p].pc = "done" /\ th[p].op = "ResolveSafe" /\ ~th[p].late
    /\ th[p].rerr = NoErr /\ th[p].val # NilV
    /\ nFailed > 0 /\ nBuilds = 2
    /\ \E id \in DOMAIN registeredBeans : registeredBeans[id].hasDependencies

\* The error a registration call is to return: the first of the
\* empty-identifier, nil-argument, closed and unsupported-type errors whose
\* condition holds, or none.
RegisterError(beanID, beanType) ==
  IF beanID = emptyString THEN ErrBeanIdParamIsEmpty
  ELSE IF beanType = NilT THEN ErrBeanTypeParamIsNil
  ELSE IF built THEN ErrRegistrationClosed
  ELSE IF beanType.k \notin {"ptr", "struct"} THEN ErrBeanTypeNotSupported
  ELSE NoErr
RegisterInstanceError(beanID, instance) ==
  IF beanID = emptyString THEN ErrBeanIdParamIsEmpty
  ELSE IF instance = NilV THEN ErrBeanParamIsNil
  ELSE IF built THEN ErrRegistrationClosed
  ELSE NoErr

\* C19 (rejected registrations have no effect): a Register or
\* RegisterInstance call returns an error only at once, and then leaves
\* registry, requirements and objects unchanged; the error is the
\* empty-identifier error when the identifier is empty, else the nil-argument
\* error when the type or instance is nil, else the registration-closed error
\* when the container is closed, else (Register only) the unsupported-type
\* error when the type is neither a pointer nor a struct; and the
\* empty-identifier, nil-argument and closed errors are pairwise distinct.
C19_RejectedRegistrationsNoEffect ==
  /\ [](/\ Cardinality({ErrBeanIdParamIsEmpty, ErrBeanTypeParamIsNil,
                        ErrRegistrationClosed}) = 3
        /\ Cardinality({ErrBeanIdParamIsEmpty, ErrBeanParamIsNil,
                        ErrRegistrationClosed}) = 3
        /\ \A p \in Procs :
             th[p].pc = "done" /\ th[p].op \in {"Register", "RegisterInstance"} =>
               th[p].rerr \in {NoErr, ErrBeanIdParamIsEmpty, ErrBeanTypeParamIsNil,
                               ErrBeanParamIsNil, ErrRegistrationClosed,
                               ErrBeanTypeNotSupported})
  /\ [][\A p \in Procs :
          /\ th[p].pc = "idle" /\ th'[p].pc = "done"
               /\ th'[p].op \in {"Register", "RegisterInstance"} =>
               /\ th'[p].rerr # NoErr
               /\ UNCHANGED <<registeredBeans, requiredDependency, heap>>
               /\ th'[p].op = "Register" =>
                    \A beanID \in RawIDs, beanType \in RegTypes :
                      th'[p].rerr # RegisterError(beanID, beanType) =>
                        ~Register(p, beanID, beanType)
               /\ th'[p].op = "RegisterInstance" =>
                    \A beanID \in RawIDs, instance \in RegInstances :
                      th'[p].rerr # RegisterInstanceError(beanID, instance) =>
                        ~RegisterInstance(p, beanID, instance)
          /\ th[p].pc = "idle" /\ th'[p].pc = "reg_store" =>
               /\ \A beanID \in {x \in RawIDs : ToLower(x) = th'[p].id},
                     beanType \in {t \in RegTypes : t.n = th'[p].b.beanType.n} :
                    Register(p, beanID, beanType) =>
                      RegisterError(beanID, beanType) = NoErr
               /\ \A beanID \in {x \in RawIDs : ToLower(x) = th'[p].id},
                     instance \in RegInstances :
                    RegisterInstance(p, beanID, instance) =>
                      RegisterInstanceError(beanID, instance) = NoErr
          /\ th[p].pc = "reg_store" /\ th'[p] # th[p] =>
               th'[p].pc = "done" /\ th'[p].rerr = NoErr]_vars

\* On a closed container with registered beans and requirements, a
\* registration call has returned the empty-identifier error.
C19_Witness ==
  \E p \in Procs :
    /\ built /\ th[p].pc = "done" /\ th[p].late
    /\ th[p].op \in {"Register", "RegisterInstance"}
    /\ th[p].rerr = ErrBeanIdParamIsEmpty
    /\ DOMAIN registeredBeans # {} /\ DOMAIN requiredDependency # {}

\* The goroutines inside the finalization sequence of Build (lines 331-451):
\* past the locks and the idempotence check, not yet through the deferred
\* unlocks.
InFinalization ==
  {p \in Procs : th[p].pc \in {"validate", "instantiate", "inject", "order",
                                "hooks", "unlock"}}

\* C20 (build mutual exclusion): with Build and ResolveSafe callers running
\* concurrently on one container, at most one goroutine is inside the
\* finalization sequence at any time, and it holds buildLock and regMu; the
\* sequence is entered only while the container is open, a successful
\* execution closes it, so that none follows a successful one; and a caller
\* whose Build finds the container closed skips the sequence, changes nothing
\* and gets no error from Build: a Build call returns nil, a ResolveSafe call
\* goes on to its lookup, whose only errors are those of the lookup.
C20_BuildMutualExclusion ==
  /\ [](/\ Cardinality(InFinalization) <= 1
        /\ \A p \in InFinalization : buildLock = p /\ regMu = p
        /\ InFinalization = {} => buildLock = NoProc /\ regMu = NoProc)
  /\ [][\A p \in Procs :
          /\ th[p].pc = "build" /\ th'[p].pc = "validate" =>
               ~built /\ ~built' /\ InFinalization = {}
          /\ th[p].pc = "unlock" /\ th'[p].pc # "unlock" =>
               /\ ~built
               /\ built' = (th[p].err = NoErr)
               /\ th'[p].pc = "done" => th'[p].rerr = th[p].err
               /\ th'[p].pc = "lookup" => th[p].err = NoErr
          /\ th[p].pc = "build" /\ th'[p].pc \notin {"build", "validate"} =>
               /\ built
               /\ UNCHANGED <<shared, hist>>
               /\ th[p].op = "Build" => th'[p].pc = "done" /\ th'[p].rerr = NoErr
               /\ th[p].op = "ResolveSafe" => th'[p].pc = "lookup"
          /\ th[p].pc = "lookup" /\ th'[p].pc # "lookup" =>
               /\ built
               /\ th'[p].pc = "done"
               /\ th'[p].rerr # NoErr =>
                    th'[p].rerr.k \in {"not_found", "not_initialized"}]_vars

\* Two goroutines called Build or ResolveSafe while the container was open,
\* one of them Build; both calls have returned without error, none failed, and
\* the registry holds a bean with dependencies whose hook ran once.
C20_Witness ==
  /\ built /\ nBuilds = 2 /\ nFailed = 0
  /\ \A p \in Procs :
       /\ th[p].pc = "done" /\ ~th[p].late /\ th[p].rerr = NoErr
       /\ th[p].op \in {"Build", "ResolveSafe"}
  /\ \E p \in Procs : th[p].op = "Build"
  /\ \E p \in Procs : th[p].op = "ResolveSafe"
  /\ \E id \in DOMAIN registeredBeans :
       /\ registeredBeans[id].hasDependencies
       /\ id \in HookBeans
       /\ initCount[registeredBeans[id].instance.a] = 1

\* C21 (registration never interleaves with a build), as stated: a step of a
\* Register or RegisterInstance call changes the registry or the requirement
\* map only while the container is open and no goroutine is inside the
\* finalization sequence.
C21_AsStated ==
  [][\A p \in Procs :
       /\ th[p].pc \in {"idle", "reg_store"}
       /\ th'[p] # th[p]
       /\ <<registeredBeans, requiredDependency>>' # <<registeredBeans, requiredDependency>>
       => ~built /\ InFinalization = {}]_vars

\* The identifiers x and y differ at most in letter case.
SameButCase(x, y) ==
  x = y \/ {x, y} \in {{"a", "A"}, {"b", "B"}, {"c", "C"}}

\* The fields of empty-interface type that carry a di.inject tag, in the
\* objects of the registered beans: <<address, field index, tag as written>>.
AnyDepFields ==
  {x \in (1..Len(heap)) \X (1..3) \X {"a", "B", "b", "c"} :
     /\ \E id \in DOMAIN registeredBeans : registeredBeans[id].instance = PtrV(x[1])
     /\ x[2] <= Len(Fields(heap[x[1]].t))
     /\ LET sf == Fields(heap[x[1]].t)[x[2]]
        IN sf.hasTag /\ sf.exported /\ sf.tag = x[3] /\ sf.type = AnyT}

C23_AsStated ==
  \A p \in Procs :
    th[p].err.k = "cycle" =>
      LET path == th[p].err.path IN
      /\ Len(path) >= 2
      /\ path[1] = th[p].err.id
      /\ path[Len(path)] = th[p].err.id
      /\ \A i \in 2..(Len(path) - 1) : path[i] # th[p].err.id

\* C24 (no false cycle): a Build returns a cycle error, from the injection
\* traversal, from injectIntoStruct or from the initializer-order traversal,
\* only if the dependency graph over the registered beans has a cycle.
C24_NoFalseCycle ==
  \A p \in Procs :
    th[p].err.k \in {"cycle", "initorder_cycle"} => HasCycle(registeredBeans)

\* A Build is about to return nil over a graph in which one bean is a
\* dependency of two beans, one of which depends on the other: the traversal
\* reached it more than once, and it was injected into both.
C24_Witness ==
  \E p \in Procs :
    /\ th[p].pc = "unlock" /\ th[p].err = NoErr
    /\ \E x \in DOMAIN registeredBeans, y \in DOMAIN registeredBeans,
          z \in DOMAIN registeredBeans :
         /\ Cardinality({x, y, z}) = 3
         /\ {y, z} \subseteq Range(registeredBeans[x].dependencies)
         /\ z \in Range(registeredBeans[y].dependencies)
         /\ {<<x, y>>, <<x, z>>, <<y, z>>} \subseteq Range(injLog)

\* The identifier y and everything it depends on, directly or not.
DepClosure(y) ==
  {y} \cup ReachFrom(registeredBeans, {y}, Cardinality(DOMAIN registeredBeans))

\* C25 (dependencies are injected before dependents): when injectIntoStruct
\* has handed y to x, it had before that handed every declared dependency of
\* y, and of everything y depends on, to its dependent; and at the step that
\* injects y its traversal is complete: y and all it depends on are visited
\* and none of them is on the path.
C25_DependenciesInjectedFirst ==
  /\ [](\A i \in 1..Len(injLog) :
          \A z \in DepClosure(injLog[i][2]) :
            \A d \in Range(registeredBeans[z].dependencies) :
              \E j \in 1..(i - 1) : injLog[j] = <<z, d>>)
  /\ [][\A p \in Procs :
          th[p].pc = "inject" /\ injLog' # injLog =>
            /\ injLog' = Append(injLog, <<Top(th[p]).id, Top(th[p]).depBean.id>>)
            /\ DepClosure(Top(th[p]).depBean.id) \subseteq th[p].visited
            /\ DepClosure(Top(th[p]).depBean.id) \cap th[p].onPath = {}]_vars

\* A Build is about to return nil after it injected z into y and then y into
\* x, for three beans x, y, z.
C25_Witness ==
  \E p \in Procs :
    /\ th[p].pc = "unlock" /\ th[p].err = NoErr
    /\ \E i \in 1..Len(injLog), j \in 1..Len(injLog) :
         /\ i < j
         /\ injLog[i][1] = injLog[j][2]
         /\ Cardinality({injLog[j][1], injLog[i][1], injLog[i][2]}) = 3

\* The dependencies handed to injectIntoStruct for the receiver x by the
\* finalization in progress, in the order of the calls.
InjectedInto(x) ==
  LET es == SelectSeq(injLog, LAMBDA e : e[1] = x)
  IN [i \in 1..Len(es) |-> es[i][2]]

\* The errors of the dependency loop that concern the dependency in hand.
DepErrKinds ==
  {"dependency_not_found", "dependency_not_instantiated", "literal_provider_error"}

\* C26 (declaration order within a node): the dependencies injected into a
\* bean are at any time the first ones of the list recorded at its
\* registration, in that order; a frame of the traversal that stands at
\* dependency k has had exactly the k-1 dependencies before it traversed and
\* injected, so that dependency k is looked up, and the literal provider asked
\* for it, only then; and an error of the dependency loop names the first
\* dependency in that order that was not injected.
C26_DeclarationOrder ==
  /\ [](/\ \A x \in DOMAIN registeredBeans :
             /\ Len(InjectedInto(x)) <= Len(registeredBeans[x].dependencies)
             /\ InjectedInto(x) =
                  SubSeq(registeredBeans[x].dependencies, 1, Len(InjectedInto(x)))
             /\ registeredBeans[x].dependencies = checkForDependency(EmptyMap, registeredBeans[x].beanType).deps
        /\ \A p \in Procs :
             /\ \A n \in 1..Len(th[p].stack) :
                  Len(InjectedInto(th[p].stack[n].id)) = th[p].stack[n].i - 1
             /\ th[p].pc = "unlock" /\ th[p].err.k \in DepErrKinds =>
                  /\ th[p].stack # <<>>
                  /\ LET x == Top(th[p]).id IN
                     th[p].err.id = registeredBeans[x].dependencies[Len(InjectedInto(x)) + 1])
  /\ [][lpCalls' # lpCalls /\ lpCalls' # <<>> =>
          \E p \in Procs :
            /\ th[p].pc = "inject" /\ th[p].stack # <<>> /\ th'[p] # th[p]
            /\ LET x == Top(th[p]).id IN
               lpCalls'[Len(lpCalls')].id =
                 registeredBeans[x].dependencies[Len(InjectedInto(x)) + 1]]_vars

\* A Build is about to fail on the second dependency of a bean after the
\* first one was injected into it.
C26_Witness ==
  \E p \in Procs :
    /\ th[p].pc = "unlock" /\ th[p].err.k \in DepErrKinds
    /\ th[p].stack # <<>>
    /\ LET x == Top(th[p]).id IN
       /\ Len(InjectedInto(x)) = 1
       /\ Len(registeredBeans[x].dependencies) = 2
       /\ th[p].err.id = registeredBeans[x].dependencies[2]

\* C27 (dependency lists are frozen at registration): the dependency list and
\* the has-dependencies flag of a descriptor are those the scan of its type
\* yields; no step changes them or removes the descriptor, except the store of
\* a registration under the same identifier, and in particular no step of a
\* Build between its locks and its return.
C27_DependencyListsFrozen ==
  /\ [](\A id \in DOMAIN registeredBeans :
          LET r == checkForDependency(EmptyMap, registeredBeans[id].beanType) IN
          /\ registeredBeans[id].dependencies = r.deps
          /\ registeredBeans[id].hasDependencies = r.has)
  /\ [][\A id \in DOMAIN registeredBeans :
          \/ /\ id \in DOMAIN registeredBeans'
             /\ registeredBeans'[id].dependencies = registeredBeans[id].dependencies
             /\ registeredBeans'[id].hasDependencies = registeredBeans[id].hasDependencies
          \/ \E p \in Procs :
               /\ th[p].pc = "reg_store" /\ th'[p].pc = "done"
               /\ th[p].id = id
               /\ registeredBeans'[id] = th[p].b]_vars
  /\ [][InFinalization # {} /\ registeredBeans' # registeredBeans =>
          \A id \in DOMAIN registeredBeans' :
            IF id \in DOMAIN registeredBeans
            THEN registeredBeans'[id] =
                   [registeredBeans[id] EXCEPT !.instance = registeredBeans'[id].instance,
                                               !.singleton = registeredBeans'[id].singleton]
            ELSE ~registeredBeans'[id].hasDependencies
                   /\ registeredBeans'[id].dependencies = <<>>]_vars

\* A Build is about to return nil after it created the instance of a bean
\* with two dependencies and stored the descriptor of a literal the provider
\* supplied for one of them.
C27_Witness ==
  \E p \in Procs :
    /\ th[p].pc = "unlock" /\ th[p].err = NoErr
    /\ \E c \in Range(lpCalls) : c.ans = "value"
    /\ \E id \in DOMAIN registeredBeans :
         /\ Len(registeredBeans[id].dependencies) = 2
         /\ registeredBeans[id].instance # NilV

\* Every dependency identifier of every registered bean is registered.
AllDependenciesRegistered ==
  \A id \in DOMAIN registeredBeans :
    Range(registeredBeans[id].dependencies) \subseteq DOMAIN registeredBeans

\* C28 (the initializer-order pass never fails after a successful injection
\* pass): no Build returns an initializer-order error, neither the cycle one
\* nor the not-registered one; when the order traversal starts, and from then
\* on until Build returns, the graph of the registered beans has no cycle and
\* every dependency identifier, literals included, is in the registry.
C28_InitOrderNeverFails ==
  \A p \in Procs :
    /\ th[p].err.k \notin {"initorder_cycle", "initorder_not_registered"}
    /\ th[p].rerr.k \notin {"initorder_cycle", "initorder_not_registered"}
    /\ th[p].pc \in {"order", "hooks"} =>
         /\ ~HasCycle(registeredBeans)
         /\ AllDependenciesRegistered

\* The order traversal has returned an order of three beans, one of them the
\* descriptor of a literal the provider supplied, and the hooks are running.
C28_Witness ==
  \E p \in Procs :
    /\ th[p].pc = "hooks"
    /\ Len(th[p].order) = 3
    /\ \E c \in Range(lpCalls) :
         /\ c.ans = "value"
         /\ c.id \in Range(th[p].order)
         /\ \E id \in DOMAIN registeredBeans : c.id \in Range(registeredBeans[id].dependencies)

\* The identifiers whose descriptor was synthesized from a literal: the only
\* descriptors of a string that are not singletons (lines 128-133).
LiteralIds ==
  {id \in DOMAIN registeredBeans :
     registeredBeans[id].beanType = StringT /\ ~registeredBeans[id].singleton}

\* The beans that had the dependency d handed to them by the finalization in
\* progress.
DependentsInjected(d) ==
  {x \in DOMAIN registeredBeans : <<x, d>> \in Range(injLog)}

\* C29 (a literal supplied by the provider becomes a registry entry): the step
\* at which the provider reports found stores, under the identifier of the
\* missing dependency, a descriptor of the expected type that holds the value;
\* the provider is asked at most once for an identifier in one Build, so that
\* every dependent after the first is served from that descriptor, and each
\* dependent's string fields annotated with the identifier hold the value; and
\* on a closed container ResolveSafe of the identifier returns the value.
C29_LiteralBecomesRegistryEntry ==
  /\ [](/\ \A i \in 1..Len(lpCalls), j \in 1..Len(lpCalls) :
             lpCalls[i].id = lpCalls[j].id => i = j
        /\ \A c \in Range(lpCalls) :
             c.ans = "value" =>
               /\ c.id \in LiteralIds
               /\ registeredBeans[c.id].instance = LiteralValue
               /\ registeredBeans[c.id].id = c.id
               /\ \A x \in DependentsInjected(c.id) :
                    \A sf \in StringDepFields :
                      registeredBeans[x].instance = PtrV(sf[1]) /\ sf[3] = c.id =>
                        heap[sf[1]].f[sf[2]] = LiteralValue
        /\ \A id \in LiteralIds : registeredBeans[id].instance = LiteralValue
        /\ \A p \in Procs :
             /\ th[p].pc = "done" /\ th[p].op = "ResolveSafe" /\ th[p].late
             /\ th[p].id \in LiteralIds
             => th[p].rerr = NoErr /\ th[p].val = LiteralValue)
  /\ [][lpCalls' # lpCalls /\ lpCalls' # <<>> /\ lpCalls'[Len(lpCalls')].ans = "value" =>
          LET id == lpCalls'[Len(lpCalls')].id IN
          /\ ~Has(registeredBeans, id)
          /\ Has(requiredDependency, id)
          /\ registeredBeans' =
               Put(registeredBeans, id,
                   bean(id, requiredDependency[id], LiteralValue, FALSE, FALSE, <<>>))]_vars

\* After a successful Build in which the provider was asked once, two beans
\* hold the literal in their string fields and a ResolveSafe call made on the
\* closed container has returned it.
C29_Witness ==
  /\ built
  /\ Cardinality(LiteralIds) = 1
  /\ \E sf \in StringDepFields, sg \in StringDepFields :
       /\ sf[1] # sg[1]
       /\ sf[3] \in LiteralIds /\ sg[3] \in LiteralIds
       /\ heap[sf[1]].f[sf[2]] = LiteralValue
       /\ heap[sg[1]].f[sg[2]] = LiteralValue
  /\ \E p \in Procs :
       /\ th[p].pc = "done" /\ th[p].op = "ResolveSafe" /\ th[p].late
       /\ th[p].id \in LiteralIds /\ th[p].val = LiteralValue

\* The positions of a Build or ResolveSafe call in progress.
InCall ==
  {"build", "validate", "instantiate", "inject", "order", "hooks", "unlock", "lookup"}

\* C30 (termination and lock release): every Build and ResolveSafe call in
\* progress eventually returns, whatever the registered graph and whatever
\* other calls run beside it; and buildLock and regMu are held only by a
\* goroutine inside the finalization sequence, so that they are free whenever
\* no Build is between its locks and its return, after a failed Build as after
\* a successful one.
C30_TerminationAndLockRelease ==
  /\ \A p \in Procs : (th[p].pc \in InCall) ~> (th[p].pc = "done")
  /\ [](/\ \A p \in Procs : buildLock = p \/ regMu = p => p \in InFinalization
        /\ InFinalization = {} => buildLock = NoProc /\ regMu = NoProc
        /\ \A p \in Procs :
             th[p].pc = "done" /\ th[p].op \in {"Build", "ResolveSafe"} =>
               buildLock # p /\ regMu # p)

\* A Build of one goroutine has failed and returned its error, and the call
\* of the other goroutine, the second to find the container open, holds both
\* locks and is inside the injection traversal.
C30_Witness ==
  /\ nFailed = 1 /\ nBuilds = 2
  /\ \E p \in Procs, q \in Procs :
       /\ th[p].pc = "done" /\ th[p].op = "Build" /\ th[p].rerr # NoErr
       /\ th[q].pc = "inject" /\ th[q].stack # <<>> /\ buildLock = q /\ regMu = q

\* The Lookup step of p returns an instance to the caller of ResolveSafe.
ServesInstance(p) ==
  /\ th[p].pc = "lookup"
  /\ th'[p].pc = "done"
  /\ th'[p].rerr = NoErr

\* C31 (no partially built instance is served), as stated: with ResolveSafe
\* callers running concurrently with Build, the container is closed only by an
\* execution of the finalization sequence in which the injection traversal
\* visited every registered bean and every hook was invoked and returned nil;
\* ResolveSafe returns an instance only on a closed container with no
\* finalization in progress; and an instance it returns that has the hook has
\* had it invoked.
C31_AsStated ==
  [][\A p \in Procs :
       /\ th[p].pc = "unlock" /\ built' /\ ~built =>
            /\ th[p].err = NoErr
            /\ DOMAIN registeredBeans \subseteq th[p].visited
            /\ HookBeans \subseteq Range(initLog)
       /\ ServesInstance(p) =>
            /\ built
            /\ InFinalization = {}
            /\ IsInitializer(th'[p].val, heap) => Has(initCount, th'[p].val.a)]_vars

\* The value v found in a field comes from depBean: it is depBean's instance
\* (the shared pointer, or the string), or, for a dependency of a zero-size
\* struct type, a pointer to an object of that type allocated for the field
\* (initializer.go lines 95-96).
TakenFrom(v, depBean, h) ==
  \/ v # NilV /\ v = depBean.instance
  \/ /\ v.k = "ptr" /\ depBean.instance.k = "ptr"
     /\ h[v.a].t = h[depBean.instance.a].t
     /\ ZeroSize(h[v.a].t)

\* C32 (every declared dependency is actually injected), as stated: at the end
\* of a Build that succeeds, every field that the scanner recorded as a
\* dependency, in every registered bean whose instance is a struct, holds a
\* value taken from the bean registered or synthesized under the identifier of
\* its annotation, whatever other beans declare under that identifier.
C32_AsStated ==
  \A p \in Procs :
    th[p].pc = "unlock" /\ th[p].err = NoErr =>
      \A id \in DOMAIN registeredBeans :
        LET inst == registeredBeans[id].instance IN
        inst.k = "ptr" /\ heap[inst.a].t \in StructNames =>
          \A i \in 1..Len(Fields(heap[inst.a].t)) :
            LET sf == Fields(heap[inst.a].t)[i] IN
            IsDepField(sf) =>
              /\ Has(registeredBeans, ToLower(sf.tag))
              /\ TakenFrom(heap[inst.a].f[i], registeredBeans[ToLower(sf.tag)], heap)

\* The annotated settable pointer fields whose type is the type of the bean
\* registered under their identifier (initializer.go line 92):
\* <<address, field, identifier>>.
ExactFields ==
  {ef \in (1..Len(heap)) \X (1..3) \X IDs :
     /\ \E id \in DOMAIN registeredBeans : registeredBeans[id].instance = PtrV(ef[1])
     /\ heap[ef[1]].t \in StructNames
     /\ ef[2] <= Len(Fields(heap[ef[1]].t))
     /\ LET sf == Fields(heap[ef[1]].t)[ef[2]]
        IN /\ IsDepField(sf) /\ Kind(sf.type) = "ptr"
           /\ ef[3] = ToLower(sf.tag)
           /\ Has(registeredBeans, ef[3])
           /\ registeredBeans[ef[3]].beanType = sf.type}

\* A successful execution of the finalization sequence is at its end, or the
\* container is closed.
AfterSuccessfulBuild ==
  built \/ \E p \in Procs : th[p].pc = "unlock" /\ th[p].err = NoErr

\* C33 (singleton sharing), as stated: after a successful Build, ResolveSafe
\* returns the instance the registry holds, whose hook, if it has one, the
\* Build invoked; a pointer field of the exact type of its dependency holds
\* that very instance, unless the dependency is of a zero-size struct type, and
\* then it holds a pointer to an object of that type that is distinct from the
\* registered instance: the two pointers do not compare equal.
C33_AsStated ==
  /\ \A p \in Procs :
       th[p].pc = "done" /\ th[p].op = "ResolveSafe" /\ th[p].rerr = NoErr =>
         /\ th[p].val = registeredBeans[th[p].id].instance
         /\ IsInitializer(th[p].val, heap) => Has(initCount, th[p].val.a)
  /\ AfterSuccessfulBuild =>
       \A ef \in ExactFields :
         LET v == heap[ef[1]].f[ef[2]]
             dep == registeredBeans[ef[3]].instance
         IN IF ZeroSize(heap[dep.a].t)
            THEN /\ v.k = "ptr"
                 /\ heap[v.a].t = heap[dep.a].t
                 /\ ~SamePointer(v, dep, heap)
            ELSE v = dep

\* What holds of such fields: the field of a dependency with fields holds the
\* registered instance, and the field of a zero-size dependency holds a pointer
\* that comes from an allocation of its own, made for no bean and never handed
\* to a hook.
ExactFieldsSharedOrFresh ==
  AfterSuccessfulBuild =>
    \A ef \in ExactFields :
      LET v == heap[ef[1]].f[ef[2]]
          dep == registeredBeans[ef[3]].instance
      IN IF ZeroSize(heap[dep.a].t)
         THEN /\ v.k = "ptr"
              /\ heap[v.a].t = heap[dep.a].t
              /\ v.a # dep.a
              /\ \A id \in DOMAIN registeredBeans : registeredBeans[id].instance # v
              /\ ~Has(initCount, v.a)
         ELSE v = dep

\* The identifiers that the descriptors now in the registry declare as
\* dependencies.
DeclaredNow ==
  UNION {Range(registeredBeans[id].dependencies) : id \in DOMAIN registeredBeans}

\* C34 (validation follows the current registry), as stated: a registration
\* made while the container is open stores its descriptor under its
\* identifier, replacing the one stored there; and when the validation of
\* Build fails with a required-not-registered or a type-mismatch error, the
\* identifier it names is declared as a dependency by a descriptor that is in
\* the registry, not only by one that has been replaced.
C34_AsStated ==
  /\ [][\A p \in Procs :
          th[p].pc = "reg_store" /\ th'[p].pc # "reg_store" =>
            /\ registeredBeans' = Put(registeredBeans, th[p].b.id, th[p].b)
            /\ th'[p].rerr = NoErr]_vars
  /\ [](\A p \in Procs :
          /\ th[p].pc = "unlock"
          /\ th[p].err.k \in {"required_not_registered", "type_mismatch"}
          => th[p].err.id \in DeclaredNow)

\* C35 (at-most-once work per build): within one execution of the
\* finalization sequence, the traversal enters the dependency loop of a bean
\* only if it has not visited the bean, and a visited bean stays visited, so
\* that no dependency is injected twice into one receiver however many
\* dependents lead to it; the literal provider is asked at most once for an
\* identifier: a literal it supplied is in the registry, with the supplied
\* value, for the rest of the execution, and after any other answer the Build
\* returns an error without a further call.
C35_AtMostOncePerBuild ==
  /\ [](/\ \A i \in DOMAIN injLog, j \in DOMAIN injLog : i # j => injLog[i] # injLog[j]
        /\ \A i \in DOMAIN lpCalls :
             /\ \A j \in DOMAIN lpCalls : i # j => lpCalls[i].id # lpCalls[j].id
             /\ lpCalls[i].ans = "value" =>
                  /\ Has(registeredBeans, lpCalls[i].id)
                  /\ registeredBeans[lpCalls[i].id].instance = LiteralValue
             /\ lpCalls[i].ans # "value" =>
                  /\ i = Len(lpCalls)
                  /\ \E p \in Procs :
                       /\ th[p].pc = "unlock"
                       /\ th[p].err.k \in {"literal_provider_error", "dependency_not_found"}
                       /\ th[p].err.id = lpCalls[i].id)
  /\ [][\A p \in Procs :
          th[p].pc = "inject" /\ th'[p].pc = "inject" =>
            /\ th[p].visited \subseteq th'[p].visited
            /\ Len(th'[p].stack) > Len(th[p].stack) =>
                 Top(th'[p]).id \notin th[p].visited
            /\ Len(th'[p].stack) < Len(th[p].stack) =>
                 Top(th[p]).id \in th'[p].visited \ th[p].visited]_vars

\* A Build succeeded in which a bean with a dependency of its own was injected
\* into two dependents, its own dependency being a literal the provider was
\* asked for.
C35_Witness ==
  \E p \in Procs :
    /\ th[p].pc = "unlock" /\ th[p].err = NoErr
    /\ \E x \in DOMAIN registeredBeans, y \in DOMAIN registeredBeans,
          d \in DOMAIN registeredBeans :
         /\ x # y
         /\ <<x, d>> \in Range(injLog) /\ <<y, d>> \in Range(injLog)
         /\ registeredBeans[d].hasDependencies
         /\ \E i \in DOMAIN lpCalls :
              /\ lpCalls[i].ans = "value"
              /\ <<d, lpCalls[i].id>> \in Range(injLog)

====
